---- MODULE Spec2Model ----
(***************************************************************************)
(* Model of the pongou stores: the wallet store (src/unnamed/part_002,     *)
(* imported as "@/lib/WalletStore"), the game store (src/lib/GameStore.ts) *)
(* and the user store (src/lib/UserStore.ts).                              *)
(*                                                                         *)
(* JavaScript runs one callback at a time.  An async store action runs     *)
(* synchronously up to its first `await`; every in-memory mutation of the  *)
(* modelled actions happens in that first segment, so one TLA+ action is   *)
(* the whole synchronous segment of one call (nested calls included).      *)
(* What runs after the await of a wallet action is its `finally` block,    *)
(* which is the separate step WalletFinally; other calls interleave        *)
(* between the two.                                                        *)
(*                                                                         *)
(* Money is counted in whole currency units.  The amounts of the model are *)
(* multiples of 10, for which 5% of the doubled stake is a whole number    *)
(* and the IEEE-754 product totalPot * 0.05 is exact.                      *)
(***************************************************************************)
EXTENDS Integers, FiniteSets, Sequences, Bags, TLC

\* ---------------------------------------------------------------- bounds
MaxMatches == 2    \* match ids that uuid.v4() hands out in one run
MaxTx == 4         \* entries of transactionHistory in one run
MaxInFlight == 2   \* wallet actions suspended at `await saveString`
LedgerMaxMatches == 1   \* matches opened in SpecLedger
LedgerMaxTx == 3        \* entries of transactionHistory in SpecLedger
SettleMaxMatches == 1   \* matches opened in SpecSettle
SettleMaxTx == 4        \* entries of transactionHistory in SpecSettle
SettleMaxInFlight == 1  \* suspended wallet actions in SpecSettle
WalletMaxMatches == 1   \* matches opened in SpecWallet
WalletMaxTx == 4        \* entries of transactionHistory in SpecWallet
MaxTime == 6            \* minutes that the clock runs
BoardMaxPlayed == 1     \* totalMatches up to which SpecBoard calls updateStats
RankMaxPlayed == 5      \* totalMatches up to which SpecRank calls updateStats
FrameMaxMatches == 1    \* matches opened in SpecFrame
FrameMaxTx == 4         \* entries of transactionHistory in SpecFrame
FrameMaxInFlight == 1   \* suspended wallet actions in SpecFrame
PersistMaxMatches == 1  \* matches opened in SpecPersist
PersistMaxTx == 4       \* entries of transactionHistory in SpecPersist
PersistMaxInFlight == 1 \* suspended wallet actions in SpecPersist
MaxStakeCents == 100    \* the largest stake of SpecCents, in cents
MaxPayouts == 3         \* payouts that one wallet receives in SpecCents
WinnerMaxMatches == 1   \* matches opened in SpecWinner
JoinMaxMatches == 1     \* matches opened in SpecJoin
JoinMaxTx == 5          \* entries of transactionHistory in SpecJoin
JoinMaxInFlight == 1    \* suspended wallet actions in SpecJoin
LifeMaxMatches == 1     \* matches opened in SpecLifecycle
LifeMaxTx == 4          \* entries of transactionHistory in SpecLifecycle
LifeMaxInFlight == 1    \* suspended wallet actions in SpecLifecycle
WithdrawMaxTx == 4      \* entries of transactionHistory in SpecWithdraw
StartupMaxTx == 2       \* entries of transactionHistory in SpecStartup
StartupMaxInFlight == 1 \* suspended wallet actions in SpecStartup

\* ------------------------------------------------------------- constants
PLATFORM_FEE_NUM == 5      \* PLATFORM_FEE_PERCENTAGE = 0.05 = 5 / 100
PLATFORM_FEE_DEN == 100
LEADERBOARD_CACHE_DURATION == 5   \* 5 * 60 * 1000 ms, in minutes

\* ---------------------------------------------------------------- inputs
Users == {"u1", "u2"}
NoUser == ""                       \* empty player2Id / unauthenticated userId
MatchIds == 1..MaxMatches
NoMatch == 0
DepositAmounts == {-10, 0, 40}      \* -10 and 0 are the invalid deposits
ScenarioDeposits == {40, 100}
StakeAmounts == {40}
BetAmounts == {20, 40}
WithdrawAmounts == {40}
AnyWithdrawAmounts == {-10, 0, 40}  \* amounts of any sign passed to withdraw
NewProfile == [wins |-> 0, losses |-> 0, totalMatches |-> 0]   \* a player who never played
Veteran == [wins |-> 3, losses |-> 1, totalMatches |-> 4]
Regular == [wins |-> 1, losses |-> 2, totalMatches |-> 3]
RankProfiles == {Veteran, Regular}
RankUsers == {"u1", "u2", "u3"}
ProfileUpdates == {[wins |-> 1]}
GameStateUpdates == {[scores |-> [player1 |-> 1, player2 |-> 0]]}
CentStakes == 1..MaxStakeCents     \* 0.01, 0.02, ... as entered, in cents
Winners == Users \cup {"u3"}       \* the winner ids endMatch is called with
Joiners == Users \cup {"u3"}       \* the players who call joinMatch

VARIABLES
  wallets,              \* WalletStoreState.wallets: userId -> Wallet
  escrowHoldings,       \* WalletStoreState.escrowHoldings: matchId -> EscrowHolding
  transactionHistory,   \* WalletStoreState.transactionHistory (bag: keys are opaque uuids)
  pendingTransactions,  \* WalletStoreState.pendingTransactions (bag)
  walletError,          \* WalletStoreState.error
  walletLoading,        \* WalletStoreState.isLoading
  walletInFlight,       \* wallet actions suspended at `await saveString`
  walletStored,         \* the string stored under STORAGE_KEY (Null or one snapshot)
  walletLoad,           \* the load of the wallet store at process start: its
                        \* position and the string it has read
  pendingMatches,       \* GameStoreState.pendingMatches: matchId -> Match
  activeMatches,        \* GameStoreState.activeMatches
  matchHistory,         \* GameStoreState.matchHistory
  gameStates,           \* GameStoreState.gameStates
  playerReadyStatus,    \* GameStoreState.playerReadyStatus
  users,                \* UserStoreState.users: userId -> counters
  userKeys,             \* the keys of `users` in the order Object.entries lists them
  userStats,            \* UserStoreState.userStats: userId -> rank, winRate, avgStake
  userMatchHistory,     \* UserStoreState.matchHistory: userId -> match ids
  cachedLeaderboard,    \* UserStoreState.cachedLeaderboard (Null or one snapshot)
  cachedLeaderboardExpiry,  \* UserStoreState.cachedLeaderboardExpiry (Null or one time)
  nextMatchId,          \* the next id uuid.v4() returns to createMatch
  now,                  \* the clock that Date.now() and new Date() read, in minutes
  storageUp,            \* whether the key-value store accepts the writes it is sent
  fetchLog,             \* the last fetchLeaderboard call since the last clearCache
  payoutWallet,         \* a winner's balance and the escrow amount of their matches,
                        \* as the Numbers that processPayout computes with
  lastCall              \* the most recent call (or change of the storage): its action,
                        \* its match id, the Error it threw

walletVars == <<wallets, escrowHoldings, transactionHistory, pendingTransactions,
                walletError, walletLoading, walletInFlight, walletStored,
                walletLoad>>
gameVars == <<pendingMatches, activeMatches, matchHistory, gameStates,
              playerReadyStatus, nextMatchId>>
userVars == <<users, userKeys, userStats, userMatchHistory, cachedLeaderboard,
              cachedLeaderboardExpiry>>
envVars == <<now, storageUp, fetchLog, payoutWallet>>
vars == <<wallets, escrowHoldings, transactionHistory, pendingTransactions,
          walletError, walletLoading, walletInFlight, walletStored,
          walletLoad, pendingMatches,
          activeMatches, matchHistory, gameStates, playerReadyStatus, users,
          userKeys, userStats, userMatchHistory, cachedLeaderboard,
          cachedLeaderboardExpiry, nextMatchId, now, storageUp, fetchLog,
          payoutWallet, lastCall>>

\* -------------------------------------------------- JavaScript records
EmptyRecord == [x \in {} |-> 0]
Has(f, k) == k \in DOMAIN f
Put(f, k, v) == [x \in (DOMAIN f) \cup {k} |-> IF x = k THEN v ELSE f[x]]
Del(f, k) == [x \in (DOMAIN f) \ {k} |-> f[x]]

NoError == "null"

Call(op, matchId, thrown) == [op |-> op, matchId |-> matchId, thrown |-> thrown]

\* { ...base, ...over } and Object.assign(base, over)
Merge(base, over) ==
  [f \in (DOMAIN base) \cup (DOMAIN over) |->
     IF f \in DOMAIN over THEN over[f] ELSE base[f]]

\* a value that is null or one object
Null == {}
Some(x) == {x}
The(opt) == CHOOSE x \in opt : TRUE

\* ------------------------------------------------ storage collaborator
\* saveString of "@/app/utils/storage/storage": the write is attempted and
\* its outcome comes back as a Result; a refused write throws nothing
SaveString == [saved |-> storageUp, thrown |-> NoError]

\* the positions of the load at process start: loadString not yet
\* answered, answered with `read` and the continuation not yet run, over
LoadReading == [phase |-> "reading", read |-> Null]
LoadRead(stored) == [phase |-> "read", read |-> stored]
LoadDone == [phase |-> "done", read |-> Null]

\* the store stops or resumes accepting writes
StorageFault ==
  /\ storageUp' = ~storageUp
  /\ lastCall' = Call("storageFault", NoMatch, NoError)
  /\ UNCHANGED <<walletVars, gameVars, userVars, now, fetchLog, payoutWallet>>

\* ------------------------------------------------- JavaScript Numbers
\* The amounts are JavaScript Numbers, that is IEEE-754 doubles.  A positive
\* Number is modelled by the 53 bits of its significand m and the exponent e
\* of the lowest of them, so that its value is m * 2^e; m is a sequence of
\* limbs of LimbBits bits, lowest first, without leading zero limbs.  The
\* results of * + - are rounded to nearest, ties to even, as the language
\* defines them.
LimbBits == 13
Base == 2^LimbBits
SignificandBits == 53

RECURSIVE Limbs(_)
Limbs(n) == IF n = 0 THEN <<>> ELSE <<n % Base>> \o Limbs(n \div Base)

RECURSIVE TrimLimbs(_)
TrimLimbs(x) ==
  IF Len(x) = 0 THEN <<>>
  ELSE IF x[Len(x)] = 0 THEN TrimLimbs(SubSeq(x, 1, Len(x) - 1))
  ELSE SubSeq(x, 1, Len(x))

RECURSIVE AddLimbs(_, _, _)
AddLimbs(x, y, carry) ==
  IF x = <<>> /\ y = <<>> THEN Limbs(carry)
  ELSE LET a == IF x = <<>> THEN 0 ELSE Head(x)
           b == IF y = <<>> THEN 0 ELSE Head(y)
           sum == a + b + carry
       IN <<sum % Base>> \o AddLimbs(IF x = <<>> THEN x ELSE Tail(x),
                                     IF y = <<>> THEN y ELSE Tail(y),
                                     sum \div Base)

\* x - y - borrow, for x >= y + borrow
RECURSIVE SubLimbs(_, _, _)
SubLimbs(x, y, borrow) ==
  IF x = <<>> THEN <<>>
  ELSE LET b == IF y = <<>> THEN 0 ELSE Head(y)
           diff == Head(x) - b - borrow
       IN <<diff % Base>> \o SubLimbs(Tail(x), IF y = <<>> THEN y ELSE Tail(y),
                                      IF diff < 0 THEN 1 ELSE 0)

\* x * d + carry, for d < Base
RECURSIVE ScaleLimbs(_, _, _)
ScaleLimbs(x, d, carry) ==
  IF x = <<>> THEN Limbs(carry)
  ELSE LET p == Head(x) * d + carry
       IN <<p % Base>> \o ScaleLimbs(Tail(x), d, p \div Base)

RECURSIVE MulLimbs(_, _)
MulLimbs(x, y) ==
  IF y = <<>> THEN <<>>
  ELSE AddLimbs(ScaleLimbs(x, Head(y), 0), <<0>> \o MulLimbs(x, Tail(y)), 0)

\* quotient and remainder of x by d, for d * Base within the integers
RECURSIVE DivLimbs(_, _)
DivLimbs(x, d) ==
  IF x = <<>> THEN [q |-> <<>>, r |-> 0]
  ELSE LET hi == DivLimbs(Tail(x), d)
           cur == hi.r * Base + Head(x)
       IN [q |-> <<cur \div d>> \o hi.q, r |-> cur % d]

BitLength(x) ==
  IF x = <<>> THEN 0
  ELSE LimbBits * (Len(x) - 1)
         + (CHOOSE k \in 1..LimbBits : 2^(k - 1) <= x[Len(x)] /\ x[Len(x)] < 2^k)

\* bit i of x, the lowest being bit 0
Bit(x, i) ==
  IF i \div LimbBits + 1 > Len(x) THEN 0
  ELSE (x[i \div LimbBits + 1] \div 2^(i % LimbBits)) % 2

ShiftLeft(x, k) ==
  [i \in 1..(k \div LimbBits) |-> 0] \o ScaleLimbs(x, 2^(k % LimbBits), 0)

ShiftRight(x, k) ==
  LET y == SubSeq(x, k \div LimbBits + 1, Len(x))
      s == k % LimbBits
  IN TrimLimbs([i \in 1..Len(y) |->
       y[i] \div 2^s
         + (IF i < Len(y) THEN (y[i + 1] % 2^s) * 2^(LimbBits - s) ELSE 0)])

\* the double nearest to x * 2^e, for x > 0
RoundToDouble(x0, e) ==
  LET x == TrimLimbs(x0)
      n == BitLength(x)
      k == n - SignificandBits
  IN IF k <= 0
     THEN [m |-> TrimLimbs(ShiftLeft(x, -k)), e |-> e + k]
     ELSE LET kept == ShiftRight(x, k)
              up == /\ Bit(x, k - 1) = 1
                    /\ \/ Bit(x, k) = 1
                       \/ \E i \in 0..(k - 2) : Bit(x, i) = 1
              r == IF up THEN AddLimbs(kept, <<1>>, 0) ELSE kept
          IN IF BitLength(r) > SignificandBits
             THEN [m |-> ShiftRight(r, 1), e |-> e + k + 1]
             ELSE [m |-> r, e |-> e + k]

NumberTimes(a, b) == RoundToDouble(MulLimbs(a.m, b.m), a.e + b.e)

NumberPlus(a, b) ==
  LET e == IF a.e < b.e THEN a.e ELSE b.e
  IN RoundToDouble(AddLimbs(ShiftLeft(a.m, a.e - e), ShiftLeft(b.m, b.e - e), 0), e)

\* a - b, for a > b
NumberMinus(a, b) ==
  LET e == IF a.e < b.e THEN a.e ELSE b.e
  IN RoundToDouble(SubLimbs(ShiftLeft(a.m, a.e - e), ShiftLeft(b.m, b.e - e), 0), e)

\* the Number a decimal literal or an entered amount n / d denotes: the
\* double nearest to it (6 limbs of fraction, and below them one bit that
\* tells whether the division left a remainder)
NumberOf(n, d) ==
  LET dv == DivLimbs(ShiftLeft(Limbs(n), 6 * LimbBits), d)
  IN RoundToDouble(AddLimbs(ScaleLimbs(dv.q, 2, 0),
                            IF dv.r = 0 THEN <<>> ELSE <<1>>, 0),
                   -(6 * LimbBits) - 1)

\* an amount of whole cents as the app holds it
Cents(c) == NumberOf(c, 100)

NoPayoutWallet ==
  [stake |-> 0, paid |-> 0, balance |-> Null, platformFee |-> Null,
   winningAmount |-> Null]

\* the wallet of a player who holds the stake they put in escrow again
PayoutWallet(stake) ==
  [stake |-> stake, paid |-> 0, balance |-> Some(Cents(stake)),
   platformFee |-> Null, winningAmount |-> Null]

\* the arithmetic of processPayout on the winner's balance
ProcessPayoutNumbers(pw) ==
  LET amount == Cents(pw.stake)
      totalPot == NumberTimes(amount, NumberOf(2, 1))
      platformFee == NumberTimes(totalPot, NumberOf(PLATFORM_FEE_NUM, PLATFORM_FEE_DEN))
      winningAmount == NumberMinus(totalPot, platformFee)
  IN [pw EXCEPT !.balance = Some(NumberPlus(The(@), winningAmount)),
                !.platformFee = Some(platformFee),
                !.winningAmount = Some(winningAmount),
                !.paid = @ + 1]

\* the winner is paid one more match of the same stake
ProcessPayoutInNumbers ==
  /\ payoutWallet.stake > 0
  /\ payoutWallet.paid < MaxPayouts
  /\ payoutWallet' = ProcessPayoutNumbers(payoutWallet)
  /\ lastCall' = Call("processPayout", NoMatch, NoError)
  /\ UNCHANGED <<walletVars, gameVars, userVars, now, storageUp, fetchLog>>

\* ------------------------------------------------------- wallet store
WalletState ==
  [wallets |-> wallets, escrowHoldings |-> escrowHoldings,
   transactionHistory |-> transactionHistory,
   pendingTransactions |-> pendingTransactions,
   error |-> walletError, isLoading |-> walletLoading,
   inFlight |-> walletInFlight]

\* JSON.stringify(get()): the six fields of the state (the actions of the
\* store are functions, which JSON.stringify leaves out)
Stringify(ws) ==
  [wallets |-> ws.wallets, escrowHoldings |-> ws.escrowHoldings,
   transactionHistory |-> ws.transactionHistory,
   pendingTransactions |-> ws.pendingTransactions,
   error |-> ws.error, isLoading |-> ws.isLoading]

\* the state a wallet action leaves: the action that has reached its
\* `await saveString(STORAGE_KEY, JSON.stringify(get()))` has sent the
\* state it holds at that point to the storage
SetWalletState(ws) ==
  /\ ws.inFlight <= MaxInFlight
  /\ BagCardinality(ws.transactionHistory) <= MaxTx
  /\ walletStored' = IF ws.inFlight > walletInFlight /\ SaveString.saved
                     THEN Some(Stringify(ws))
                     ELSE walletStored
  /\ walletLoad' = walletLoad
  /\ wallets' = ws.wallets
  /\ escrowHoldings' = ws.escrowHoldings
  /\ transactionHistory' = ws.transactionHistory
  /\ pendingTransactions' = ws.pendingTransactions
  /\ walletError' = ws.error
  /\ walletLoading' = ws.isLoading
  /\ walletInFlight' = ws.inFlight

Transaction(userId, amount, type, status, matchId) ==
  [userId |-> userId, amount |-> amount, type |-> type, status |-> status,
   matchId |-> matchId]

\* a wallet created with funds already locked
NewWallet_Locked == [balance |-> 0, lockedBalance |-> 10]

NewWallet == [balance |-> 0, lockedBalance |-> 0]

PlatformFee(totalPot) == (totalPot * PLATFORM_FEE_NUM) \div PLATFORM_FEE_DEN

\* deposit writing the amount over the balance instead of adding to it
DepositEffect_Overwrite(ws, userId, amount) ==
  IF amount <= 0
  THEN [ws EXCEPT !.error = "Invalid deposit amount"]
  ELSE LET transaction == Transaction(userId, amount, "deposit", "pending", NoMatch)
           w0 == IF Has(ws.wallets, userId) THEN ws.wallets
                 ELSE Put(ws.wallets, userId, NewWallet)
           w1 == [w0 EXCEPT ![userId].balance = amount]
       IN [ws EXCEPT
             !.isLoading = TRUE,
             !.error = NoError,
             !.wallets = w1,
             !.pendingTransactions = @ (+) SetToBag({transaction}),
             !.transactionHistory =
                @ (+) SetToBag({[transaction EXCEPT !.status = "completed"]}),
             !.inFlight = @ + 1]

DepositEffect(ws, userId, amount) ==
  IF amount <= 0
  THEN [ws EXCEPT !.error = "Invalid deposit amount"]
  ELSE LET transaction == Transaction(userId, amount, "deposit", "pending", NoMatch)
           w0 == IF Has(ws.wallets, userId) THEN ws.wallets
                 ELSE Put(ws.wallets, userId, NewWallet)
           w1 == [w0 EXCEPT ![userId].balance = @ + amount]
       IN [ws EXCEPT
             !.isLoading = TRUE,
             !.error = NoError,
             !.wallets = w1,
             !.pendingTransactions = @ (+) SetToBag({transaction}),
             !.transactionHistory =
                @ (+) SetToBag({[transaction EXCEPT !.status = "completed"]}),
             !.inFlight = @ + 1]

\* placeBet recording its transaction before it looks the match up
PlaceBetEffect_RecordsFirst(ws, active, userId, matchId, amount) ==
  IF \/ ~Has(ws.wallets, userId)
     \/ ws.wallets[userId].balance - ws.wallets[userId].lockedBalance < amount
  THEN [ws EXCEPT !.error = "Insufficient funds"]
  ELSE IF ~Has(active, matchId)
  THEN [ws EXCEPT
          !.error = "Match not found",
          !.isLoading = FALSE,
          !.transactionHistory =
             @ (+) SetToBag({Transaction(userId, amount, "bet", "completed", matchId)})]
  ELSE LET match == active[matchId]
           escrowHolding == [matchId |-> matchId, amount |-> amount,
                             player1Id |-> match.player1Id,
                             player2Id |-> match.player2Id]
       IN [ws EXCEPT
             !.isLoading = TRUE,
             !.error = NoError,
             !.wallets = [@ EXCEPT ![userId].lockedBalance = @ + amount],
             !.escrowHoldings = Put(@, matchId, escrowHolding),
             !.transactionHistory =
                @ (+) SetToBag({Transaction(userId, amount, "bet", "completed", matchId)}),
             !.inFlight = @ + 1]

PlaceBetEffect(ws, active, userId, matchId, amount) ==
  IF \/ ~Has(ws.wallets, userId)
     \/ ws.wallets[userId].balance - ws.wallets[userId].lockedBalance < amount
  THEN [ws EXCEPT !.error = "Insufficient funds"]
  ELSE IF ~Has(active, matchId)
  THEN [ws EXCEPT !.error = "Match not found", !.isLoading = FALSE]
  ELSE LET match == active[matchId]
           escrowHolding == [matchId |-> matchId, amount |-> amount,
                             player1Id |-> match.player1Id,
                             player2Id |-> match.player2Id]
       IN [ws EXCEPT
             !.isLoading = TRUE,
             !.error = NoError,
             !.wallets = [@ EXCEPT ![userId].lockedBalance = @ + amount],
             !.escrowHoldings = Put(@, matchId, escrowHolding),
             !.transactionHistory =
                @ (+) SetToBag({Transaction(userId, amount, "bet", "completed", matchId)}),
             !.inFlight = @ + 1]

\* withdraw checking the amount against the balance, not the available funds
WithdrawEffect_IgnoresLock(ws, userId, amount) ==
  IF \/ ~Has(ws.wallets, userId)
     \/ ws.wallets[userId].balance < amount
  THEN [ws EXCEPT !.error = "Insufficient available balance"]
  ELSE [ws EXCEPT
          !.isLoading = TRUE,
          !.error = NoError,
          !.wallets = [@ EXCEPT ![userId].balance = @ - amount],
          !.transactionHistory =
             @ (+) SetToBag({Transaction(userId, amount, "withdrawal", "completed", NoMatch)}),
          !.inFlight = @ + 1]

WithdrawEffect(ws, userId, amount) ==
  IF \/ ~Has(ws.wallets, userId)
     \/ ws.wallets[userId].balance - ws.wallets[userId].lockedBalance < amount
  THEN [ws EXCEPT !.error = "Insufficient available balance"]
  ELSE [ws EXCEPT
          !.isLoading = TRUE,
          !.error = NoError,
          !.wallets = [@ EXCEPT ![userId].balance = @ - amount],
          !.transactionHistory =
             @ (+) SetToBag({Transaction(userId, amount, "withdrawal", "completed", NoMatch)}),
          !.inFlight = @ + 1]

\* processPayout without its `delete state.escrowHoldings[matchId]`
ProcessPayoutEffect_KeepEscrow(ws, matchId, winnerId) ==
  IF ~Has(ws.escrowHoldings, matchId)
  THEN [ws EXCEPT !.error = "No escrow found for this match"]
  ELSE LET escrow == ws.escrowHoldings[matchId]
           totalPot == escrow.amount * 2
           platformFee == PlatformFee(totalPot)
           winningAmount == totalPot - platformFee
           loserId == IF escrow.player1Id = winnerId THEN escrow.player2Id
                      ELSE escrow.player1Id
       IN IF ~Has(ws.wallets, winnerId) \/ ~Has(ws.wallets, loserId)
          THEN \* state.wallets[id] is undefined: the recipe throws, the draft is dropped
               [ws EXCEPT !.error = "TypeError", !.isLoading = FALSE]
          ELSE LET w1 == [ws.wallets EXCEPT ![winnerId].lockedBalance = @ - escrow.amount]
                   w2 == [w1 EXCEPT ![loserId].lockedBalance = @ - escrow.amount]
                   w3 == [w2 EXCEPT ![winnerId].balance = @ + winningAmount]
               IN [ws EXCEPT
                     !.isLoading = TRUE,
                     !.error = NoError,
                     !.wallets = w3,
                     !.transactionHistory =
                        @ (+) SetToBag({Transaction(winnerId, winningAmount, "win",
                                                    "completed", matchId)}),
                     !.inFlight = @ + 1]

ProcessPayoutEffect(ws, matchId, winnerId) ==
  IF ~Has(ws.escrowHoldings, matchId)
  THEN [ws EXCEPT !.error = "No escrow found for this match"]
  ELSE LET escrow == ws.escrowHoldings[matchId]
           totalPot == escrow.amount * 2
           platformFee == PlatformFee(totalPot)
           winningAmount == totalPot - platformFee
           loserId == IF escrow.player1Id = winnerId THEN escrow.player2Id
                      ELSE escrow.player1Id
       IN IF ~Has(ws.wallets, winnerId) \/ ~Has(ws.wallets, loserId)
          THEN \* state.wallets[id] is undefined: the recipe throws, the draft is dropped
               [ws EXCEPT !.error = "TypeError", !.isLoading = FALSE]
          ELSE LET w1 == [ws.wallets EXCEPT ![winnerId].lockedBalance = @ - escrow.amount]
                   w2 == [w1 EXCEPT ![loserId].lockedBalance = @ - escrow.amount]
                   w3 == [w2 EXCEPT ![winnerId].balance = @ + winningAmount]
               IN [ws EXCEPT
                     !.isLoading = TRUE,
                     !.error = NoError,
                     !.wallets = w3,
                     !.transactionHistory =
                        @ (+) SetToBag({Transaction(winnerId, winningAmount, "win",
                                                    "completed", matchId)}),
                     !.escrowHoldings = Del(@, matchId),
                     !.inFlight = @ + 1]

Deposit(userId, amount) ==
  /\ SetWalletState(DepositEffect(WalletState, userId, amount))
  /\ lastCall' = Call("deposit", NoMatch, NoError)
  /\ UNCHANGED <<gameVars, userVars, envVars>>

PlaceBet(userId, matchId, amount) ==
  /\ SetWalletState(PlaceBetEffect(WalletState, activeMatches, userId, matchId, amount))
  /\ lastCall' = Call("placeBet", matchId, NoError)
  /\ UNCHANGED <<gameVars, userVars, envVars>>

Withdraw(userId, amount) ==
  /\ SetWalletState(WithdrawEffect(WalletState, userId, amount))
  /\ lastCall' = Call("withdraw", NoMatch, NoError)
  /\ UNCHANGED <<gameVars, userVars, envVars>>

ProcessPayout(matchId, winnerId) ==
  /\ SetWalletState(ProcessPayoutEffect(WalletState, matchId, winnerId))
  /\ lastCall' = Call("processPayout", matchId, NoError)
  /\ UNCHANGED <<gameVars, userVars, envVars>>

\* a wallet action that treats a refused write as a failure of the call
WalletFinallyEffect_ChecksResult(ws, save) ==
  [ws EXCEPT
     !.error = IF save.thrown # NoError THEN save.thrown
               ELSE IF ~save.saved THEN "Failed to save"
               ELSE @,
     !.isLoading = FALSE,
     !.inFlight = @ - 1]

\* what a wallet action does once `await saveString(...)` is over: the
\* `catch` block if the await threw, then the `finally` block
WalletFinallyEffect(ws, save) ==
  [ws EXCEPT
     !.error = IF save.thrown # NoError THEN save.thrown ELSE @,
     !.isLoading = FALSE,
     !.inFlight = @ - 1]

\* a wallet action that was suspended at its await resumes
WalletFinally ==
  /\ walletInFlight > 0
  /\ SetWalletState(WalletFinallyEffect(WalletState, SaveString))
  /\ UNCHANGED <<gameVars, userVars, envVars, lastCall>>

\* ------------------------------------------- wallet store, process start
InitialWalletState ==
  [error |-> NoError, wallets |-> EmptyRecord, isLoading |-> FALSE,
   pendingTransactions |-> EmptyBag, escrowHoldings |-> EmptyRecord,
   transactionHistory |-> EmptyBag]

\* loadString of "@/app/utils/storage/storage" answers: the string under
\* STORAGE_KEY as it is at that moment, or null
LoadString ==
  /\ walletLoad.phase = "reading"
  /\ walletLoad' = LoadRead(walletStored)
  /\ lastCall' = Call("loadString", NoMatch, NoError)
  /\ UNCHANGED <<wallets, escrowHoldings, transactionHistory, pendingTransactions,
                 walletError, walletLoading, walletInFlight, walletStored,
                 gameVars, userVars, envVars>>

\* stored ? JSON.parse(stored) : {}
LoadPersistedState(stored) ==
  IF stored = Null THEN EmptyRecord ELSE The(stored)

\* the continuation of the load:
\* useWalletStore.setState({ ...initialState, ...persistedState }), which
\* assigns the fields it is given over the state of the store
LoadPersistedStateThen ==
  /\ walletLoad.phase = "read"
  /\ LET persistedState == LoadPersistedState(walletLoad.read)
         state == Merge(Stringify(WalletState),
                        Merge(InitialWalletState, persistedState))
     IN /\ wallets' = state.wallets
        /\ escrowHoldings' = state.escrowHoldings
        /\ transactionHistory' = state.transactionHistory
        /\ pendingTransactions' = state.pendingTransactions
        /\ walletError' = state.error
        /\ walletLoading' = state.isLoading
  /\ walletLoad' = LoadDone
  /\ lastCall' = Call("loadPersistedState", NoMatch, NoError)
  /\ UNCHANGED <<walletInFlight, walletStored, gameVars, userVars, envVars>>

\* the process ends and starts again: the module of the wallet store is
\* evaluated anew, the suspended actions are gone with the old process,
\* the stored string stays and a new load begins
Restart ==
  /\ wallets' = InitialWalletState.wallets
  /\ escrowHoldings' = InitialWalletState.escrowHoldings
  /\ transactionHistory' = InitialWalletState.transactionHistory
  /\ pendingTransactions' = InitialWalletState.pendingTransactions
  /\ walletError' = InitialWalletState.error
  /\ walletLoading' = InitialWalletState.isLoading
  /\ walletInFlight' = 0
  /\ walletLoad' = LoadReading
  /\ lastCall' = Call("restart", NoMatch, NoError)
  /\ UNCHANGED <<walletStored, gameVars, userVars, envVars>>

\* --------------------------------------------------------- user store
\* winRate and avgStake are kept as exact fractions num / den in lowest terms
RECURSIVE Gcd(_, _)
Gcd(a, b) == IF b = 0 THEN a ELSE Gcd(b, a % b)

Rat(n, d) == LET g == Gcd(n, d) IN [num |-> n \div g, den |-> d \div g]

Zero == [num |-> 0, den |-> 1]

\* a.winRate - b.winRate < 0
RatLess(a, b) == a.num * b.den < b.num * a.den

NewUser == [wins |-> 0, losses |-> 0, totalMatches |-> 0]

NewUserStats == [rank |-> 0, winRate |-> Zero, avgStake |-> Zero]

UpdateStatsEffect(us, userId, won) ==
  IF ~Has(us, userId) THEN us
  ELSE [us EXCEPT ![userId] =
          [wins |-> @.wins + (IF won THEN 1 ELSE 0),
           losses |-> @.losses + (IF won THEN 0 ELSE 1),
           totalMatches |-> @.totalMatches + 1]]

\* the stats record that updateStats writes once the counters of `us` are
\* the incremented ones
UserStatsEffect(stats, us, userId, stake) ==
  IF ~Has(us, userId) THEN stats
  ELSE LET user == us[userId]
           old == IF Has(stats, userId) THEN stats[userId] ELSE NewUserStats
       IN Put(stats, userId,
              [rank |-> old.rank,
               winRate |-> Rat(user.wins * 100, user.totalMatches),
               avgStake |-> Rat(old.avgStake.num * (user.totalMatches - 1)
                                  + stake * old.avgStake.den,
                                old.avgStake.den * user.totalMatches)])

UpdateStats(userId, won, stake) ==
  /\ users' = UpdateStatsEffect(users, userId, won)
  /\ userStats' = UserStatsEffect(userStats, UpdateStatsEffect(users, userId, won),
                                  userId, stake)
  /\ lastCall' = Call("updateStats", NoMatch, SaveString.thrown)
  /\ UNCHANGED <<walletVars, gameVars, userKeys, userMatchHistory, cachedLeaderboard,
                 cachedLeaderboardExpiry, envVars>>

UpdateProfile(userId, updates) ==
  /\ users' = IF Has(users, userId)
              THEN [users EXCEPT ![userId] = Merge(@, updates)]
              ELSE users
  /\ lastCall' = Call("updateProfile", NoMatch, SaveString.thrown)
  /\ UNCHANGED <<walletVars, gameVars, userKeys, userStats, userMatchHistory,
                 cachedLeaderboard, cachedLeaderboardExpiry, envVars>>

\* userId is the id that uuid.v4() returns, one that no user has yet
InitializeUser(userId, userData) ==
  /\ ~Has(users, userId)
  /\ users' = Put(users, userId, Merge(NewUser, userData))
  /\ userKeys' = Append(userKeys, userId)
  /\ userStats' = Put(userStats, userId, NewUserStats)
  /\ userMatchHistory' = Put(userMatchHistory, userId, <<>>)
  /\ lastCall' = Call("initializeUser", NoMatch, SaveString.thrown)
  /\ UNCHANGED <<walletVars, gameVars, cachedLeaderboard, cachedLeaderboardExpiry,
                 envVars>>

\* Object.entries(state.users).map(...): one entry per user, in key order
LeaderboardEntries(keys, stats) ==
  [i \in 1..Len(keys) |->
     [userId |-> keys[i],
      rank |-> IF Has(stats, keys[i]) THEN stats[keys[i]].rank ELSE 0,
      winRate |-> IF Has(stats, keys[i]) THEN stats[keys[i]].winRate ELSE Zero]]

\* a sort that puts an entry in front of the entries it ties with
InsertByWinRate_BeforeTies(sorted, e) ==
  LET before == {i \in 1..Len(sorted) : RatLess(e.winRate, sorted[i].winRate)}
      k == Cardinality(before)
  IN SubSeq(sorted, 1, k) \o <<e>> \o SubSeq(sorted, k + 1, Len(sorted))

\* e goes behind every entry that the comparator does not put after it
InsertByWinRate(sorted, e) ==
  LET before == {i \in 1..Len(sorted) : ~RatLess(sorted[i].winRate, e.winRate)}
      k == Cardinality(before)
  IN SubSeq(sorted, 1, k) \o <<e>> \o SubSeq(sorted, k + 1, Len(sorted))

\* entries.sort((a, b) => b.winRate - a.winRate), a stable sort
RECURSIVE SortByWinRate(_)
SortByWinRate(entries) ==
  IF entries = <<>> THEN <<>>
  ELSE InsertByWinRate(SortByWinRate(SubSeq(entries, 1, Len(entries) - 1)),
                       entries[Len(entries)])

Leaderboard(keys, stats) ==
  LET sorted == SortByWinRate(LeaderboardEntries(keys, stats))
  IN [i \in 1..Len(sorted) |-> [sorted[i] EXCEPT !.rank = i]]

\* a snapshot still served at the very time of its expiry
CacheFresh_AtExpiry(cache, expiry, time) ==
  /\ cache # Null
  /\ expiry # Null
  /\ The(expiry) >= time

CacheFresh(cache, expiry, time) ==
  /\ cache # Null
  /\ expiry # Null
  /\ The(expiry) > time

Fetched(time, returned, expiry) ==
  [called |-> TRUE, at |-> time, returned |-> returned, expiry |-> expiry]

NoFetch == [called |-> FALSE, at |-> 0, returned |-> <<>>, expiry |-> 0]

\* fetchLeaderboard recomputing on every call
FetchLeaderboard_NoCache ==
  /\ LET leaderboard == Leaderboard(userKeys, userStats)
     IN /\ cachedLeaderboard' = Some(leaderboard)
        /\ cachedLeaderboardExpiry' = Some(now + LEADERBOARD_CACHE_DURATION)
        /\ fetchLog' = Fetched(now, leaderboard, now + LEADERBOARD_CACHE_DURATION)
  /\ lastCall' = Call("fetchLeaderboard", NoMatch, NoError)
  /\ UNCHANGED <<walletVars, gameVars, users, userKeys, userStats, userMatchHistory,
                 now, storageUp, payoutWallet>>

FetchLeaderboard ==
  /\ IF CacheFresh(cachedLeaderboard, cachedLeaderboardExpiry, now)
     THEN /\ fetchLog' = Fetched(now, The(cachedLeaderboard),
                                 The(cachedLeaderboardExpiry))
          /\ UNCHANGED <<cachedLeaderboard, cachedLeaderboardExpiry>>
     ELSE LET leaderboard == Leaderboard(userKeys, userStats)
          IN /\ cachedLeaderboard' = Some(leaderboard)
             /\ cachedLeaderboardExpiry' = Some(now + LEADERBOARD_CACHE_DURATION)
             /\ fetchLog' = Fetched(now, leaderboard, now + LEADERBOARD_CACHE_DURATION)
  /\ lastCall' = Call("fetchLeaderboard", NoMatch, NoError)
  /\ UNCHANGED <<walletVars, gameVars, users, userKeys, userStats, userMatchHistory,
                 now, storageUp, payoutWallet>>

ClearCache ==
  /\ cachedLeaderboard' = Null
  /\ cachedLeaderboardExpiry' = Null
  /\ fetchLog' = NoFetch
  /\ lastCall' = Call("clearCache", NoMatch, NoError)
  /\ UNCHANGED <<walletVars, gameVars, users, userKeys, userStats, userMatchHistory,
                 now, storageUp, payoutWallet>>

\* time passes
Tick(minutes) ==
  /\ now + minutes <= MaxTime
  /\ now' = now + minutes
  /\ UNCHANGED <<walletVars, gameVars, userVars, storageUp, fetchLog, payoutWallet,
                 lastCall>>

\* --------------------------------------------------------- game store
Match(player1Id, player2Id, stakeAmount, status, winner) ==
  [player1Id |-> player1Id, player2Id |-> player2Id, stakeAmount |-> stakeAmount,
   status |-> status, winner |-> winner]

\* createMatch storing the new match with status active
CreateMatch_StartsActive(userId, stakeAmount) ==
  IF userId = NoUser
  THEN /\ lastCall' = Call("createMatch", NoMatch, "User not authenticated")
       /\ UNCHANGED <<walletVars, gameVars, userVars, envVars>>
  ELSE IF ~Has(wallets, userId) \/ wallets[userId].balance < stakeAmount
  THEN /\ lastCall' = Call("createMatch", NoMatch, "Insufficient funds")
       /\ UNCHANGED <<walletVars, gameVars, userVars, envVars>>
  ELSE /\ nextMatchId <= MaxMatches
       /\ LET matchId == nextMatchId
          IN /\ pendingMatches' = Put(pendingMatches, matchId,
                                      Match(userId, NoUser, stakeAmount, "active", NoUser))
             /\ nextMatchId' = nextMatchId + 1
             /\ SetWalletState(PlaceBetEffect(WalletState, activeMatches,
                                              userId, matchId, stakeAmount))
             /\ lastCall' = Call("createMatch", matchId, SaveString.thrown)
       /\ UNCHANGED <<activeMatches, matchHistory, gameStates, playerReadyStatus, userVars, envVars>>

CreateMatch(userId, stakeAmount) ==
  IF userId = NoUser
  THEN /\ lastCall' = Call("createMatch", NoMatch, "User not authenticated")
       /\ UNCHANGED <<walletVars, gameVars, userVars, envVars>>
  ELSE IF ~Has(wallets, userId) \/ wallets[userId].balance < stakeAmount
  THEN /\ lastCall' = Call("createMatch", NoMatch, "Insufficient funds")
       /\ UNCHANGED <<walletVars, gameVars, userVars, envVars>>
  ELSE /\ nextMatchId <= MaxMatches
       /\ LET matchId == nextMatchId
          IN /\ pendingMatches' = Put(pendingMatches, matchId,
                                      Match(userId, NoUser, stakeAmount, "pending", NoUser))
             /\ nextMatchId' = nextMatchId + 1
             /\ SetWalletState(PlaceBetEffect(WalletState, activeMatches,
                                              userId, matchId, stakeAmount))
             /\ lastCall' = Call("createMatch", matchId, SaveString.thrown)
       /\ UNCHANGED <<activeMatches, matchHistory, gameStates, playerReadyStatus, userVars, envVars>>

\* endMatch without its `if (!match) throw`: the payout and the winner's stats
\* update run for a match that is not active
EndMatchEffect_NoActiveCheck(matchId, winner) ==
  IF ~Has(activeMatches, matchId)
  THEN /\ SetWalletState(ProcessPayoutEffect(WalletState, matchId, winner))
       /\ users' = UpdateStatsEffect(users, winner, TRUE)
       /\ userStats' = UserStatsEffect(userStats, UpdateStatsEffect(users, winner, TRUE),
                                       winner, 0)
       /\ UNCHANGED <<gameVars, userKeys, userMatchHistory, cachedLeaderboard,
                      cachedLeaderboardExpiry, envVars>>
  ELSE LET match == activeMatches[matchId]
           loser == IF winner = match.player1Id THEN match.player2Id ELSE match.player1Id
       IN /\ matchHistory' = Put(matchHistory, matchId,
                                 [match EXCEPT !.status = "completed", !.winner = winner])
          /\ activeMatches' = Del(activeMatches, matchId)
          /\ gameStates' = Del(gameStates, matchId)
          /\ SetWalletState(ProcessPayoutEffect(WalletState, matchId, winner))
          /\ LET users1 == UpdateStatsEffect(users, winner, TRUE)
                 users2 == UpdateStatsEffect(users1, loser, FALSE)
                 stats1 == UserStatsEffect(userStats, users1, winner, match.stakeAmount)
             IN /\ users' = users2
                /\ userStats' = UserStatsEffect(stats1, users2, loser, match.stakeAmount)
          /\ UNCHANGED <<pendingMatches, playerReadyStatus, nextMatchId, userKeys,
                         userMatchHistory, cachedLeaderboard, cachedLeaderboardExpiry,
                         envVars>>

\* endMatch from its first line to the await of Promise.all: the match is moved
\* to history, then processPayout and both updateStats run to their own awaits
EndMatchEffect(matchId, winner) ==
  IF ~Has(activeMatches, matchId)
  THEN UNCHANGED <<walletVars, gameVars, userVars, envVars>>
  ELSE LET match == activeMatches[matchId]
           loser == IF winner = match.player1Id THEN match.player2Id ELSE match.player1Id
       IN /\ matchHistory' = Put(matchHistory, matchId,
                                 [match EXCEPT !.status = "completed", !.winner = winner])
          /\ activeMatches' = Del(activeMatches, matchId)
          /\ gameStates' = Del(gameStates, matchId)
          /\ SetWalletState(ProcessPayoutEffect(WalletState, matchId, winner))
          /\ LET users1 == UpdateStatsEffect(users, winner, TRUE)
                 users2 == UpdateStatsEffect(users1, loser, FALSE)
                 stats1 == UserStatsEffect(userStats, users1, winner, match.stakeAmount)
             IN /\ users' = users2
                /\ userStats' = UserStatsEffect(stats1, users2, loser, match.stakeAmount)
          /\ UNCHANGED <<pendingMatches, playerReadyStatus, nextMatchId, userKeys,
                         userMatchHistory, cachedLeaderboard, cachedLeaderboardExpiry,
                         envVars>>

\* the stores as endMatch's successive set() calls leave them, for an active
\* match, with the stats updates placed before the payout
EndMatchSets_StatsFirst(matchId, winner) ==
  LET match == activeMatches[matchId]
      loser == IF winner = match.player1Id THEN match.player2Id ELSE match.player1Id
      s1 == [matchHistory |-> Put(matchHistory, matchId,
                                  [match EXCEPT !.status = "completed", !.winner = winner]),
             activeMatches |-> Del(activeMatches, matchId),
             wallet |-> WalletState,
             users |-> users]
      s2 == [s1 EXCEPT !.users = UpdateStatsEffect(@, winner, TRUE)]
      s3 == [s2 EXCEPT !.users = UpdateStatsEffect(@, loser, FALSE)]
      s4 == [s3 EXCEPT !.wallet = ProcessPayoutEffect(@, matchId, winner)]
  IN <<s1, s2, s3, s4>>

\* the stores as endMatch's successive set() calls leave them, for an active
\* match: the set() of endMatch itself, then the one of processPayout, of
\* updateStats(winner) and of updateStats(loser), each of which runs up to its
\* own await when Promise.all's argument array is built
EndMatchSets(matchId, winner) ==
  LET match == activeMatches[matchId]
      loser == IF winner = match.player1Id THEN match.player2Id ELSE match.player1Id
      s1 == [matchHistory |-> Put(matchHistory, matchId,
                                  [match EXCEPT !.status = "completed", !.winner = winner]),
             activeMatches |-> Del(activeMatches, matchId),
             wallet |-> WalletState,
             users |-> users]
      s2 == [s1 EXCEPT !.wallet = ProcessPayoutEffect(@, matchId, winner)]
      s3 == [s2 EXCEPT !.users = UpdateStatsEffect(@, winner, TRUE)]
      s4 == [s3 EXCEPT !.users = UpdateStatsEffect(@, loser, FALSE)]
  IN <<s1, s2, s3, s4>>

EndMatchThrown(matchId) ==
  IF Has(activeMatches, matchId) THEN SaveString.thrown ELSE "Match not found"

EndMatch(matchId, winner) ==
  /\ EndMatchEffect(matchId, winner)
  /\ lastCall' = Call("endMatch", matchId, EndMatchThrown(matchId))

ForfeitWinner(matchId, forfeitingPlayerId) ==
  IF activeMatches[matchId].player1Id = forfeitingPlayerId
  THEN activeMatches[matchId].player2Id
  ELSE activeMatches[matchId].player1Id

ForfeitMatch(matchId, forfeitingPlayerId) ==
  /\ IF ~Has(activeMatches, matchId)
     THEN UNCHANGED <<walletVars, gameVars, userVars, envVars>>
     ELSE EndMatchEffect(matchId, ForfeitWinner(matchId, forfeitingPlayerId))
  /\ lastCall' = Call("forfeitMatch", matchId, EndMatchThrown(matchId))

\* joinMatch looking the match up among the active matches as well, so that
\* a second call replaces the player who joined first
JoinMatch_AlsoActive(matchId, playerId) ==
  IF ~Has(pendingMatches, matchId) /\ ~Has(activeMatches, matchId)
  THEN /\ lastCall' = Call("joinMatch", matchId, "Match not found")
       /\ UNCHANGED <<walletVars, gameVars, userVars, envVars>>
  ELSE LET match == IF Has(pendingMatches, matchId) THEN pendingMatches[matchId]
                    ELSE activeMatches[matchId]
       IN IF ~Has(wallets, playerId) \/ wallets[playerId].balance < match.stakeAmount
          THEN /\ lastCall' = Call("joinMatch", matchId, "Insufficient funds")
               /\ UNCHANGED <<walletVars, gameVars, userVars, envVars>>
          ELSE LET active1 == Put(activeMatches, matchId,
                                  [match EXCEPT !.player2Id = playerId, !.status = "active"])
               IN /\ pendingMatches' = Del(pendingMatches, matchId)
                  /\ activeMatches' = active1
                  /\ playerReadyStatus' = Put(playerReadyStatus, matchId, {})
                  /\ SetWalletState(PlaceBetEffect(WalletState, active1, playerId,
                                                   matchId, match.stakeAmount))
                  /\ lastCall' = Call("joinMatch", matchId, SaveString.thrown)
                  /\ UNCHANGED <<matchHistory, gameStates, nextMatchId, userVars, envVars>>

JoinMatch(matchId, playerId) ==
  IF ~Has(pendingMatches, matchId)
  THEN /\ lastCall' = Call("joinMatch", matchId, "Match not found")
       /\ UNCHANGED <<walletVars, gameVars, userVars, envVars>>
  ELSE LET match == pendingMatches[matchId]
       IN IF ~Has(wallets, playerId) \/ wallets[playerId].balance < match.stakeAmount
          THEN /\ lastCall' = Call("joinMatch", matchId, "Insufficient funds")
               /\ UNCHANGED <<walletVars, gameVars, userVars, envVars>>
          ELSE LET active1 == Put(activeMatches, matchId,
                                  [match EXCEPT !.player2Id = playerId, !.status = "active"])
               IN /\ pendingMatches' = Del(pendingMatches, matchId)
                  /\ activeMatches' = active1
                  /\ playerReadyStatus' = Put(playerReadyStatus, matchId, {})
                  /\ SetWalletState(PlaceBetEffect(WalletState, active1, playerId,
                                                   matchId, match.stakeAmount))
                  /\ lastCall' = Call("joinMatch", matchId, SaveString.thrown)
                  /\ UNCHANGED <<matchHistory, gameStates, nextMatchId, userVars, envVars>>

LeaveMatch(matchId, playerId) ==
  /\ activeMatches' = Del(activeMatches, matchId)
  /\ gameStates' = Del(gameStates, matchId)
  /\ playerReadyStatus' = Del(playerReadyStatus, matchId)
  /\ lastCall' = Call("leaveMatch", matchId, SaveString.thrown)
  /\ UNCHANGED <<walletVars, pendingMatches, matchHistory, nextMatchId, userVars, envVars>>

\* the game state that updateGameState and resetMatch start from; positions
\* are in tenths of the field
DefaultGameState(time) ==
  [ballPosition |-> [x |-> 5, y |-> 5],
   player1Position |-> 5,
   player2Position |-> 5,
   scores |-> [player1 |-> 0, player2 |-> 0],
   lastUpdate |-> time]

UpdateGameState(matchId, gameState) ==
  /\ LET base == IF Has(gameStates, matchId) THEN gameStates[matchId]
                 ELSE DefaultGameState(now)
     IN gameStates' = Put(gameStates, matchId,
                          [Merge(base, gameState) EXCEPT !.lastUpdate = now])
  /\ lastCall' = Call("updateGameState", matchId, NoError)
  /\ UNCHANGED <<walletVars, pendingMatches, activeMatches, matchHistory,
                 playerReadyStatus, nextMatchId, userVars, envVars>>

\* resetMatch taking the match out of the active set, as leaveMatch does
ResetMatch_LeavesMatch(matchId) ==
  /\ gameStates' = IF Has(gameStates, matchId)
                   THEN [gameStates EXCEPT ![matchId] = DefaultGameState(now)]
                   ELSE gameStates
  /\ activeMatches' = Del(activeMatches, matchId)
  /\ lastCall' = Call("resetMatch", matchId, NoError)
  /\ UNCHANGED <<walletVars, pendingMatches, matchHistory,
                 playerReadyStatus, nextMatchId, userVars, envVars>>

ResetMatch(matchId) ==
  /\ gameStates' = IF Has(gameStates, matchId)
                   THEN [gameStates EXCEPT ![matchId] = DefaultGameState(now)]
                   ELSE gameStates
  /\ lastCall' = Call("resetMatch", matchId, NoError)
  /\ UNCHANGED <<walletVars, pendingMatches, activeMatches, matchHistory,
                 playerReadyStatus, nextMatchId, userVars, envVars>>

\* ------------------------------------------------------ specification
Init ==
  /\ wallets = EmptyRecord
  /\ escrowHoldings = EmptyRecord
  /\ transactionHistory = EmptyBag
  /\ pendingTransactions = EmptyBag
  /\ walletError = NoError
  /\ walletLoading = FALSE
  /\ walletInFlight = 0
  /\ walletStored = Null
  /\ walletLoad = LoadDone
  /\ pendingMatches = EmptyRecord
  /\ activeMatches = EmptyRecord
  /\ matchHistory = EmptyRecord
  /\ gameStates = EmptyRecord
  /\ playerReadyStatus = EmptyRecord
  /\ users = EmptyRecord
  /\ userKeys = <<>>
  /\ userStats = EmptyRecord
  /\ userMatchHistory = EmptyRecord
  /\ cachedLeaderboard = Null
  /\ cachedLeaderboardExpiry = Null
  /\ nextMatchId = 1
  /\ now = 0
  /\ storageUp = TRUE
  /\ fetchLog = NoFetch
  /\ payoutWallet = NoPayoutWallet
  /\ lastCall = Call("none", NoMatch, NoError)

\* the wallet store and the game store, every action of both
Next ==
  \/ \E u \in Users, a \in DepositAmounts : Deposit(u, a)
  \/ \E u \in Users, a \in WithdrawAmounts : Withdraw(u, a)
  \/ \E u \in Users, m \in MatchIds, a \in BetAmounts : PlaceBet(u, m, a)
  \/ \E m \in MatchIds, u \in Users : ProcessPayout(m, u)
  \/ WalletFinally
  \/ \E u \in Users \cup {NoUser}, a \in StakeAmounts : CreateMatch(u, a)
  \/ \E m \in MatchIds, u \in Users : JoinMatch(m, u)
  \/ \E m \in MatchIds, u \in Users : EndMatch(m, u)
  \/ \E m \in MatchIds, u \in Users : ForfeitMatch(m, u)
  \/ \E m \in MatchIds, u \in Users : LeaveMatch(m, u)

Spec == Init /\ [][Next]_vars

\* the wallet store called directly, with the game store only opening matches
LedgerFits == BagCardinality(transactionHistory) <= LedgerMaxTx

NextLedger ==
  \/ \E u \in Users, a \in DepositAmounts : Deposit(u, a) /\ LedgerFits'
  \/ \E u \in Users, a \in WithdrawAmounts : Withdraw(u, a) /\ LedgerFits'
  \/ \E u \in Users, m \in MatchIds, a \in BetAmounts : PlaceBet(u, m, a) /\ LedgerFits'
  \/ \E m \in MatchIds, u \in Users : ProcessPayout(m, u) /\ LedgerFits'
  \/ WalletFinally
  \/ \E u \in Users, a \in StakeAmounts :
        nextMatchId <= LedgerMaxMatches /\ CreateMatch(u, a)
  \/ \E m \in MatchIds, u \in Users : JoinMatch(m, u) /\ LedgerFits'

SpecLedger == Init /\ [][NextLedger]_vars

\* the match lifecycle driven through the game store
NextMatch ==
  \/ \E u \in Users, a \in ScenarioDeposits : Deposit(u, a)
  \/ WalletFinally
  \/ \E u \in Users, a \in StakeAmounts : CreateMatch(u, a)
  \/ \E m \in MatchIds, u \in Users : JoinMatch(m, u)
  \/ \E m \in MatchIds, u \in Users : EndMatch(m, u)
  \/ \E m \in MatchIds, u \in Users : ForfeitMatch(m, u)
  \/ \E m \in MatchIds, u \in Users : LeaveMatch(m, u)

SpecMatch == Init /\ [][NextMatch]_vars

\* settlement of matches between users that may or may not be registered
NextStats ==
  \/ \E u \in Users : InitializeUser(u, NewProfile)
  \/ \E u \in Users, a \in StakeAmounts : Deposit(u, a)
  \/ WalletFinally
  \/ \E u \in Users, a \in StakeAmounts : CreateMatch(u, a)
  \/ \E m \in MatchIds, u \in Users : JoinMatch(m, u)
  \/ \E m \in MatchIds, u \in Users : EndMatch(m, u)
  \/ \E m \in MatchIds, u \in Users : ForfeitMatch(m, u)

SpecStats == Init /\ [][NextStats]_vars

\* matches between registered or unregistered users, each of whom funds
\* their wallet once, ended by endMatch
SettleFits ==
  /\ BagCardinality(transactionHistory) <= SettleMaxTx
  /\ walletInFlight <= SettleMaxInFlight

NextSettle ==
  \/ \E u \in Users : InitializeUser(u, NewProfile)
  \/ \E u \in Users, a \in StakeAmounts :
        ~Has(wallets, u) /\ Deposit(u, a) /\ SettleFits'
  \/ WalletFinally
  \/ \E u \in Users, a \in StakeAmounts :
        nextMatchId <= SettleMaxMatches /\ CreateMatch(u, a)
  \/ \E m \in MatchIds, u \in Users : JoinMatch(m, u) /\ SettleFits'
  \/ \E m \in MatchIds, u \in Users : EndMatch(m, u) /\ SettleFits'

SpecSettle == Init /\ [][NextSettle]_vars

\* deposits, withdrawals and bets interleaved, with no payout
WalletFits == BagCardinality(transactionHistory) <= WalletMaxTx

NextWallet ==
  \/ \E u \in Users, a \in DepositAmounts : Deposit(u, a) /\ WalletFits'
  \/ \E u \in Users, a \in WithdrawAmounts : Withdraw(u, a) /\ WalletFits'
  \/ \E u \in Users, m \in MatchIds, a \in BetAmounts : PlaceBet(u, m, a) /\ WalletFits'
  \/ WalletFinally
  \/ \E u \in Users, a \in StakeAmounts :
        nextMatchId <= WalletMaxMatches /\ CreateMatch(u, a)
  \/ \E m \in MatchIds, u \in Users : JoinMatch(m, u) /\ WalletFits'

SpecWallet == Init /\ [][NextWallet]_vars

\* the game state of a match updated and reset while the match is opened,
\* played and settled; u1 and then u2 have registered with initializeUser
InitFrame ==
  /\ wallets = EmptyRecord
  /\ escrowHoldings = EmptyRecord
  /\ transactionHistory = EmptyBag
  /\ pendingTransactions = EmptyBag
  /\ walletError = NoError
  /\ walletLoading = FALSE
  /\ walletInFlight = 0
  /\ walletStored = Null
  /\ walletLoad = LoadDone
  /\ pendingMatches = EmptyRecord
  /\ activeMatches = EmptyRecord
  /\ matchHistory = EmptyRecord
  /\ gameStates = EmptyRecord
  /\ playerReadyStatus = EmptyRecord
  /\ users = [u \in Users |-> Merge(NewUser, NewProfile)]
  /\ userKeys = <<"u1", "u2">>
  /\ userStats = [u \in Users |-> NewUserStats]
  /\ userMatchHistory = [u \in Users |-> <<>>]
  /\ cachedLeaderboard = Null
  /\ cachedLeaderboardExpiry = Null
  /\ nextMatchId = 1
  /\ now = 0
  /\ storageUp = TRUE
  /\ fetchLog = NoFetch
  /\ payoutWallet = NoPayoutWallet
  /\ lastCall = Call("initializeUser", NoMatch, NoError)

FrameFits ==
  /\ BagCardinality(transactionHistory) <= FrameMaxTx
  /\ walletInFlight <= FrameMaxInFlight

NextFrame ==
  \/ \E u \in Users, a \in StakeAmounts :
        ~Has(wallets, u) /\ Deposit(u, a) /\ FrameFits'
  \/ WalletFinally
  \/ \E u \in Users, a \in StakeAmounts :
        nextMatchId <= FrameMaxMatches /\ CreateMatch(u, a)
  \/ \E m \in MatchIds, u \in Users : JoinMatch(m, u) /\ FrameFits'
  \/ \E m \in MatchIds, u \in Users : EndMatch(m, u) /\ FrameFits'
  \/ \E m \in 1..FrameMaxMatches, gameState \in GameStateUpdates :
        UpdateGameState(m, gameState)
  \/ \E m \in 1..FrameMaxMatches : ResetMatch(m)

SpecFrame == InitFrame /\ [][NextFrame]_vars

\* matches funded, played and settled while the storage comes and goes
PersistFits ==
  /\ BagCardinality(transactionHistory) <= PersistMaxTx
  /\ walletInFlight <= PersistMaxInFlight

NextPersist ==
  \/ StorageFault
  \/ \E u \in Users, a \in StakeAmounts :
        ~Has(wallets, u) /\ Deposit(u, a) /\ PersistFits'
  \/ \E u \in Users, a \in WithdrawAmounts : Withdraw(u, a) /\ PersistFits'
  \/ WalletFinally
  \/ \E u \in Users, a \in StakeAmounts :
        nextMatchId <= PersistMaxMatches /\ CreateMatch(u, a)
  \/ \E m \in MatchIds, u \in Users : JoinMatch(m, u) /\ PersistFits'
  \/ \E m \in MatchIds, u \in Users : EndMatch(m, u) /\ PersistFits'

SpecPersist == Init /\ [][NextPersist]_vars

\* the leaderboard fetched while users register and play and time passes
NextBoard ==
  \/ \E u \in Users : InitializeUser(u, NewProfile)
  \/ \E u \in Users, won \in BOOLEAN, a \in StakeAmounts :
        /\ Has(users, u)
        /\ users[u].totalMatches < BoardMaxPlayed
        /\ UpdateStats(u, won, a)
  \/ \E u \in Users, updates \in ProfileUpdates :
        /\ Has(users, u)
        /\ UpdateProfile(u, updates)
  \/ FetchLeaderboard
  \/ ClearCache
  \/ Tick(1)

SpecBoard == Init /\ [][NextBoard]_vars

\* leaderboards computed for three users with a past, who register and
\* play while no snapshot is cached
NoSnapshot == cachedLeaderboard = Null /\ ~fetchLog.called

NextRank ==
  \/ \E u \in RankUsers, userData \in RankProfiles :
        NoSnapshot /\ InitializeUser(u, userData)
  \/ \E u \in RankUsers, won \in BOOLEAN, a \in StakeAmounts :
        /\ NoSnapshot
        /\ Has(users, u)
        /\ users[u].totalMatches < RankMaxPlayed
        /\ UpdateStats(u, won, a)
  \/ FetchLeaderboard
  \/ ClearCache

SpecRank == Init /\ [][NextRank]_vars

\* payouts in Numbers: a player stakes a whole number of cents and wins
\* match after match of that stake
InitCents ==
  /\ wallets = EmptyRecord
  /\ escrowHoldings = EmptyRecord
  /\ transactionHistory = EmptyBag
  /\ pendingTransactions = EmptyBag
  /\ walletError = NoError
  /\ walletLoading = FALSE
  /\ walletInFlight = 0
  /\ walletStored = Null
  /\ walletLoad = LoadDone
  /\ pendingMatches = EmptyRecord
  /\ activeMatches = EmptyRecord
  /\ matchHistory = EmptyRecord
  /\ gameStates = EmptyRecord
  /\ playerReadyStatus = EmptyRecord
  /\ users = EmptyRecord
  /\ userKeys = <<>>
  /\ userStats = EmptyRecord
  /\ userMatchHistory = EmptyRecord
  /\ cachedLeaderboard = Null
  /\ cachedLeaderboardExpiry = Null
  /\ nextMatchId = 1
  /\ now = 0
  /\ storageUp = TRUE
  /\ fetchLog = NoFetch
  /\ payoutWallet \in {PayoutWallet(stake) : stake \in CentStakes}
  /\ lastCall = Call("none", NoMatch, NoError)

NextCents == ProcessPayoutInNumbers

SpecCents == InitCents /\ [][NextCents]_vars

\* a match between u1 and u2 ended with any winner id, that of a third
\* user included; each user funds their wallet at most once
NextWinner ==
  \/ \E u \in Winners, a \in StakeAmounts : ~Has(wallets, u) /\ Deposit(u, a)
  \/ WalletFinally
  \/ \E u \in Users, a \in StakeAmounts :
        nextMatchId <= WinnerMaxMatches /\ CreateMatch(u, a)
  \/ \E m \in MatchIds, u \in Users :
        /\ Has(pendingMatches, m)
        /\ pendingMatches[m].player1Id # u
        /\ JoinMatch(m, u)
  \/ \E m \in MatchIds, w \in Winners : EndMatch(m, w)

SpecWinner == Init /\ [][NextWinner]_vars

\* three funded players calling joinMatch on the matches that u1 and u2
\* open, in any order and while wallet actions are suspended
JoinFits ==
  /\ BagCardinality(transactionHistory) <= JoinMaxTx
  /\ walletInFlight <= JoinMaxInFlight

NextJoin ==
  \/ \E u \in Joiners, a \in StakeAmounts :
        ~Has(wallets, u) /\ Deposit(u, a) /\ JoinFits'
  \/ WalletFinally
  \/ \E u \in Users, a \in StakeAmounts :
        nextMatchId <= JoinMaxMatches /\ CreateMatch(u, a)
  \/ \E m \in MatchIds, u \in Joiners : JoinMatch(m, u) /\ JoinFits'
  \/ \E m \in MatchIds, w \in Users : EndMatch(m, w) /\ JoinFits'

SpecJoin == Init /\ [][NextJoin]_vars

\* matches opened, joined, ended, forfeited and left, by two players who
\* each fund their wallet once
LifeFits ==
  /\ BagCardinality(transactionHistory) <= LifeMaxTx
  /\ walletInFlight <= LifeMaxInFlight

NextLifecycle ==
  \/ \E u \in Users, a \in StakeAmounts :
        ~Has(wallets, u) /\ Deposit(u, a) /\ LifeFits'
  \/ WalletFinally
  \/ \E u \in Users, a \in StakeAmounts :
        nextMatchId <= LifeMaxMatches /\ CreateMatch(u, a)
  \/ \E m \in MatchIds, u \in Users : JoinMatch(m, u) /\ LifeFits'
  \/ \E m \in MatchIds, u \in Users : EndMatch(m, u) /\ LifeFits'
  \/ \E m \in MatchIds, u \in Users : ForfeitMatch(m, u) /\ LifeFits'
  \/ \E m \in MatchIds, u \in Users : LeaveMatch(m, u)

SpecLifecycle == Init /\ [][NextLifecycle]_vars

\* the wallet store from the start of the process: deposits and
\* withdrawals while the load at process start is under way and after it,
\* and the process started again on what was stored
InitStartup ==
  /\ wallets = EmptyRecord
  /\ escrowHoldings = EmptyRecord
  /\ transactionHistory = EmptyBag
  /\ pendingTransactions = EmptyBag
  /\ walletError = NoError
  /\ walletLoading = FALSE
  /\ walletInFlight = 0
  /\ walletStored = Null
  /\ walletLoad = LoadReading
  /\ pendingMatches = EmptyRecord
  /\ activeMatches = EmptyRecord
  /\ matchHistory = EmptyRecord
  /\ gameStates = EmptyRecord
  /\ playerReadyStatus = EmptyRecord
  /\ users = EmptyRecord
  /\ userKeys = <<>>
  /\ userStats = EmptyRecord
  /\ userMatchHistory = EmptyRecord
  /\ cachedLeaderboard = Null
  /\ cachedLeaderboardExpiry = Null
  /\ nextMatchId = 1
  /\ now = 0
  /\ storageUp = TRUE
  /\ fetchLog = NoFetch
  /\ payoutWallet = NoPayoutWallet
  /\ lastCall = Call("none", NoMatch, NoError)

StartupFits ==
  /\ BagCardinality(transactionHistory) <= StartupMaxTx
  /\ walletInFlight <= StartupMaxInFlight

NextStartup ==
  \/ \E u \in Users, a \in StakeAmounts : Deposit(u, a) /\ StartupFits'
  \/ \E u \in Users, a \in StakeAmounts : Withdraw(u, a) /\ StartupFits'
  \/ WalletFinally
  \/ LoadString
  \/ LoadPersistedStateThen
  \/ Restart

SpecStartup == InitStartup /\ [][NextStartup]_vars

\* withdraw called with amounts of any sign on funded wallets
WithdrawFits == BagCardinality(transactionHistory) <= WithdrawMaxTx

NextWithdraw ==
  \/ \E u \in Users, a \in StakeAmounts : Deposit(u, a) /\ WithdrawFits'
  \/ \E u \in Users, a \in AnyWithdrawAmounts : Withdraw(u, a) /\ WithdrawFits'
  \/ WalletFinally

SpecWithdraw == Init /\ [][NextWithdraw]_vars

\* ------------------------------------------------ measures of a state
RECURSIVE SumBalances(_, _)
SumBalances(w, ids) ==
  IF ids = {} THEN 0
  ELSE LET u == CHOOSE x \in ids : TRUE
       IN w[u].balance + SumBalances(w, ids \ {u})

TotalBalance == SumBalances(wallets, DOMAIN wallets)

RECURSIVE SumAmounts(_, _)
SumAmounts(bag, txs) ==
  IF txs = {} THEN 0
  ELSE LET t == CHOOSE x \in txs : TRUE
       IN t.amount * CopiesIn(t, bag) + SumAmounts(bag, txs \ {t})

TotalOfType(type) ==
  SumAmounts(transactionHistory, {t \in BagToSet(transactionHistory) : t.type = type})

\* the fee that was withheld from a pot of which `winnings` were paid out
FeeOfWinnings(winnings) ==
  (winnings * PLATFORM_FEE_NUM) \div (PLATFORM_FEE_DEN - PLATFORM_FEE_NUM)

RECURSIVE SumFees(_, _)
SumFees(bag, txs) ==
  IF txs = {} THEN 0
  ELSE LET t == CHOOSE x \in txs : TRUE
       IN FeeOfWinnings(t.amount) * CopiesIn(t, bag) + SumFees(bag, txs \ {t})

\* the platform fees of the matches that were paid out
SettledFees ==
  SumFees(transactionHistory, {t \in BagToSet(transactionHistory) : t.type = "win"})

RECURSIVE CountCopies(_, _)
CountCopies(bag, txs) ==
  IF txs = {} THEN 0
  ELSE LET t == CHOOSE x \in txs : TRUE
       IN CopiesIn(t, bag) + CountCopies(bag, txs \ {t})

\* the pending amount that the wallet screen shows
PendingAmount ==
  SumAmounts(pendingTransactions,
             {t \in BagToSet(pendingTransactions) : t.status = "pending"})

\* number of transactions of a type recorded for a match
TxCount(history, type, matchId) ==
  CountCopies(history, {t \in BagToSet(history) : t.type = type /\ t.matchId = matchId})

\* ------------------------------------------------------------- claims

\* C1: in every reachable state every wallet satisfies
\* 0 <= lockedBalance <= balance.
C1_BalanceInvariant ==
  \A u \in DOMAIN wallets :
    /\ 0 <= wallets[u].lockedBalance
    /\ wallets[u].lockedBalance <= wallets[u].balance

\* C2: funds are conserved: the sum of all wallet balances equals the
\* successful deposits minus the successful withdrawals minus the platform
\* fees of the settled matches (so settling a match never adds money).
C2_FundsConserved ==
  TotalBalance = TotalOfType("deposit") - TotalOfType("withdrawal") - SettledFees

\* C3: of the endMatch and forfeitMatch calls made on one active match, in
\* any order, the one that finds it active settles it (the match leaves the
\* active set, the payout is applied once, each registered participant's
\* totalMatches grows by exactly 1) and every call that finds it gone throws
\* Match not found and changes nothing.
C3_Settles(matchId) ==
  LET match == activeMatches[matchId]
  IN /\ ~Has(activeMatches', matchId)
     /\ Has(matchHistory', matchId)
     /\ TxCount(transactionHistory', "win", matchId)
          = TxCount(transactionHistory, "win", matchId) + 1
     /\ ~Has(escrowHoldings', matchId)
     /\ \A p \in {match.player1Id, match.player2Id} \cap DOMAIN users :
          users'[p].totalMatches = users[p].totalMatches + 1

C3_Rejected ==
  /\ lastCall'.thrown = "Match not found"
  /\ UNCHANGED <<wallets, escrowHoldings, transactionHistory, users,
                 pendingMatches, activeMatches, matchHistory>>

C3_ExactlyOneSettlement ==
  [][\A m \in MatchIds, u \in Users :
       (EndMatch(m, u) \/ ForfeitMatch(m, u)) =>
          IF Has(activeMatches, m)
          THEN activeMatches[m].player1Id # activeMatches[m].player2Id => C3_Settles(m)
          ELSE C3_Rejected]_vars

\* C4: a processPayout call for a match id that was already paid out (by the
\* call just before it, or earlier with no bet placed on the match since)
\* reports No escrow found and changes no balance, no lockedBalance, no
\* escrow holding and no transaction record.
C4_PaidOut(matchId) ==
  \/ /\ lastCall.op = "processPayout"
     /\ lastCall.matchId = matchId
     /\ walletError = NoError
  \/ /\ TxCount(transactionHistory, "win", matchId) > 0
     /\ ~Has(escrowHoldings, matchId)

C5_ActiveMatchEscrowed ==
  \A m \in DOMAIN activeMatches :
    /\ Has(escrowHoldings, m)
    /\ escrowHoldings[m].amount = activeMatches[m].stakeAmount
    /\ escrowHoldings[m].player1Id = activeMatches[m].player1Id
    /\ escrowHoldings[m].player2Id = activeMatches[m].player2Id

\* C6: an escrow holding exists for a match id only while that match is
\* pending or active.
C6_EscrowOnlyWhileOpen ==
  \A m \in DOMAIN escrowHoldings : Has(pendingMatches, m) \/ Has(activeMatches, m)

\* C7: a createMatch that succeeds for a creator whose available funds cover
\* the stake s raises the creator's lockedBalance by exactly s, leaves the
\* balance alone, creates the escrow holding of the new match with amount s
\* and records a completed bet transaction.
C7_CreateMatchEscrowsStake ==
  [][\A u \in Users, s \in StakeAmounts :
       ( /\ CreateMatch(u, s)
         /\ Has(wallets, u)
         /\ wallets[u].balance - wallets[u].lockedBalance >= s
         /\ lastCall'.thrown = NoError ) =>
          LET m == nextMatchId
          IN /\ wallets'[u].lockedBalance = wallets[u].lockedBalance + s
             /\ wallets'[u].balance = wallets[u].balance
             /\ Has(escrowHoldings', m)
             /\ escrowHoldings'[m].amount = s
             /\ TxCount(transactionHistory', "bet", m) = 1]_vars

\* the matches other than matchId, pending or active, that userId plays in
OtherOpenMatches(userId, matchId) ==
  {m \in (DOMAIN pendingMatches \cup DOMAIN activeMatches) \ {matchId} :
     LET match == IF Has(pendingMatches, m) THEN pendingMatches[m] ELSE activeMatches[m]
     IN userId \in {match.player1Id, match.player2Id}}

\* C8: when a created and joined match with per-player stake s is ended, the
\* winner's balance becomes the balance from before the bets minus s plus the
\* winnings (2s minus 5% of 2s), the winner's and the loser's lockedBalance
\* are 0 again (they play no other open match) and the escrow holding is
\* removed: deposit 100 and stake 40 end at 136.
C8_WinnerNetsPotMinusFee ==
  [][\A m \in MatchIds, w \in Users :
       ( /\ EndMatch(m, w)
         /\ Has(activeMatches, m)
         /\ activeMatches[m].player1Id # activeMatches[m].player2Id
         /\ w \in {activeMatches[m].player1Id, activeMatches[m].player2Id}
         /\ Has(escrowHoldings, m) ) =>
          LET match == activeMatches[m]
              s == match.stakeAmount
              winnings == 2 * s - PlatformFee(2 * s)
          IN /\ wallets'[w].balance = wallets[w].balance - s + winnings
             /\ \A p \in {match.player1Id, match.player2Id} :
                  OtherOpenMatches(p, m) = {} => wallets'[p].lockedBalance = 0
             /\ ~Has(escrowHoldings', m)]_vars

\* C9: for every completed match winnings + platformFee = stakeAmount * 2,
\* and each of its two players' lockedBalance is back at the value it had
\* before that player's bet: once every match created so far is completed,
\* every lockedBalance is back at 0.
C9_Created == 1..(nextMatchId - 1)

C9_SettlementConserves ==
  /\ \A m \in DOMAIN matchHistory :
       \A t \in BagToSet(transactionHistory) :
         (t.type = "win" /\ t.matchId = m) =>
            t.amount + PlatformFee(matchHistory[m].stakeAmount * 2)
              = matchHistory[m].stakeAmount * 2
  /\ ( \A m \in C9_Created :
         /\ Has(matchHistory, m)
         /\ matchHistory[m].player1Id # matchHistory[m].player2Id )
       => \A u \in DOMAIN wallets : wallets[u].lockedBalance = 0

\* C10: a successful placeBet on a match that already has an escrow holding
\* leaves the holding's recorded amount as the first bet set it.
C10_EscrowAmountKept ==
  [][\A u \in Users, m \in MatchIds, a \in BetAmounts :
       ( /\ PlaceBet(u, m, a)
         /\ Has(escrowHoldings, m)
         /\ walletError' = NoError ) =>
          /\ Has(escrowHoldings', m)
          /\ escrowHoldings'[m].amount = escrowHoldings[m].amount]_vars

\* C11: createMatch throws Insufficient funds whenever the creator has no
\* wallet or an available balance (balance - lockedBalance) below the stake,
\* and then creates no match and changes no wallet, escrow or transaction.
C11_CreateMatchChecksAvailable ==
  [][\A u \in Users, s \in StakeAmounts :
       ( /\ CreateMatch(u, s)
         /\ \/ ~Has(wallets, u)
            \/ wallets[u].balance - wallets[u].lockedBalance < s ) =>
          /\ lastCall'.thrown = "Insufficient funds"
          /\ UNCHANGED <<pendingMatches, activeMatches, wallets, escrowHoldings,
                         transactionHistory>>]_vars

\* C12: joinMatch throws Match not found when no pending match has the id,
\* and Insufficient funds when the joiner has no wallet or an available
\* balance (balance - lockedBalance) below the stake; either way the match
\* stays where it was and no wallet or escrow changes.
C12_JoinMatchRejects ==
  [][\A m \in MatchIds, p \in Users :
       JoinMatch(m, p) =>
          IF ~Has(pendingMatches, m)
          THEN /\ lastCall'.thrown = "Match not found"
               /\ UNCHANGED <<pendingMatches, activeMatches, wallets, escrowHoldings>>
          ELSE ( \/ ~Has(wallets, p)
                 \/ wallets[p].balance - wallets[p].lockedBalance
                      < pendingMatches[m].stakeAmount ) =>
                  /\ lastCall'.thrown = "Insufficient funds"
                  /\ UNCHANGED <<pendingMatches, activeMatches, wallets,
                                 escrowHoldings>>]_vars

\* C13: endMatch on a match id that is not in the active set (unknown, still
\* pending or already completed) throws Match not found and changes no match
\* record, wallet, escrow holding, transaction or user statistic.
C13_EndMatchNotActiveRejected ==
  [][\A m \in MatchIds, w \in Users :
       (~Has(activeMatches, m) /\ lastCall'.op = "endMatch" /\ EndMatch(m, w)) =>
          /\ lastCall'.thrown = "Match not found"
          /\ UNCHANGED <<pendingMatches, activeMatches, matchHistory, wallets,
                         escrowHoldings, transactionHistory, users>>]_vars

\* endMatch has just been rejected on a match that was completed before
C13_Witness ==
  /\ lastCall.op = "endMatch"
  /\ lastCall.thrown = "Match not found"
  /\ Has(matchHistory, lastCall.matchId)
  /\ TxCount(transactionHistory, "win", lastCall.matchId) = 1

\* C14: forfeitMatch(m, X) by a participant X of a pending or active match
\* moves the match to the completed ones, with the other participant as
\* winner when there is one, and leaves no escrow holding for it.
C14_OpenMatchOf(matchId, playerId) ==
  \/ /\ Has(pendingMatches, matchId)
     /\ pendingMatches[matchId].player1Id = playerId
  \/ /\ Has(activeMatches, matchId)
     /\ playerId \in {activeMatches[matchId].player1Id, activeMatches[matchId].player2Id}

C14_ForfeitCompletesMatch ==
  [][\A m \in MatchIds, x \in Users :
       (C14_OpenMatchOf(m, x) /\ ForfeitMatch(m, x)) =>
          /\ lastCall'.thrown = NoError
          /\ ~Has(pendingMatches', m)
          /\ ~Has(activeMatches', m)
          /\ Has(matchHistory', m)
          /\ matchHistory'[m].status = "completed"
          /\ Has(activeMatches, m) =>
                matchHistory'[m].winner = ForfeitWinner(m, x)
          /\ ~Has(escrowHoldings', m)]_vars

\* C15: within one successful endMatch (two distinct registered players, an
\* escrow holding, the winner one of the players) the in-memory effects come
\* in this order: the match is completed and in the history, then the payout
\* (escrow removed, winner credited), then the winner's stats with a win,
\* then the loser's stats with a loss; the last of them is the state the call
\* leaves.
C15_First(tr, P(_)) ==
  CHOOSE i \in 1..(Len(tr) + 1) :
    /\ i <= Len(tr) => P(tr[i])
    /\ \A j \in 1..(i - 1) : ~P(tr[j])

C15_Successful(matchId, winner) ==
  /\ Has(activeMatches, matchId)
  /\ activeMatches[matchId].player1Id # activeMatches[matchId].player2Id
  /\ winner \in {activeMatches[matchId].player1Id, activeMatches[matchId].player2Id}
  /\ {activeMatches[matchId].player1Id, activeMatches[matchId].player2Id}
        \subseteq (DOMAIN users \cap DOMAIN wallets)
  /\ Has(escrowHoldings, matchId)

C15_EffectsInOrder ==
  [][\A m \in MatchIds, w \in Users :
       (C15_Successful(m, w) /\ lastCall'.op = "endMatch" /\ EndMatch(m, w)) =>
          LET tr == EndMatchSets(m, w)
              l == ForfeitWinner(m, w)
              Completed(s) == /\ Has(s.matchHistory, m)
                              /\ s.matchHistory[m].status = "completed"
                              /\ ~Has(s.activeMatches, m)
              Paid(s) == /\ ~Has(s.wallet.escrowHoldings, m)
                         /\ s.wallet.wallets[w].balance > wallets[w].balance
              Won(s) == s.users[w].wins = users[w].wins + 1
              Lost(s) == s.users[l].losses = users[l].losses + 1
          IN /\ C15_First(tr, Completed) < C15_First(tr, Paid)
             /\ C15_First(tr, Paid) < C15_First(tr, Won)
             /\ C15_First(tr, Won) < C15_First(tr, Lost)
             /\ C15_First(tr, Lost) <= Len(tr)
             /\ matchHistory' = tr[Len(tr)].matchHistory
             /\ activeMatches' = tr[Len(tr)].activeMatches
             /\ wallets' = tr[Len(tr)].wallet.wallets
             /\ escrowHoldings' = tr[Len(tr)].wallet.escrowHoldings
             /\ users' = tr[Len(tr)].users]_vars

\* an endMatch between two distinct registered players has just paid out
C15_Witness ==
  /\ lastCall.op = "endMatch"
  /\ lastCall.thrown = NoError
  /\ Has(matchHistory, lastCall.matchId)
  /\ LET match == matchHistory[lastCall.matchId]
     IN /\ match.player1Id # match.player2Id
        /\ match.winner \in {match.player1Id, match.player2Id}
        /\ {match.player1Id, match.player2Id} \subseteq DOMAIN users
        /\ users[match.winner].wins = 1
        /\ TxCount(transactionHistory, "win", lastCall.matchId) = 1
        /\ ~Has(escrowHoldings, lastCall.matchId)

\* C16: a failure of a wallet action is never silent: when the most recent
\* call is deposit, withdraw, placeBet or processPayout, or a createMatch,
\* joinMatch, endMatch or forfeitMatch that ran one of them, and the wallet
\* action failed, the call has thrown to its caller.
C16_LedgerCalls ==
  {"deposit", "withdraw", "placeBet", "processPayout",
   "createMatch", "joinMatch", "endMatch", "forfeitMatch"}

C16_NoSilentFailure ==
  (lastCall.op \in C16_LedgerCalls /\ walletError # NoError)
    => lastCall.thrown # NoError

\* C17: no update to a wallet is lost, whatever the interleaving of deposit,
\* withdraw and placeBet calls (with no payout): every balance is the
\* successful deposits minus the successful withdrawals of its user, every
\* lockedBalance the successful bets of its user, and no withdrawal or bet
\* went beyond the funds available when it was applied, so that
\* 0 <= lockedBalance <= balance.
C17_Total(userId, type) ==
  SumAmounts(transactionHistory,
             {t \in BagToSet(transactionHistory) : t.type = type /\ t.userId = userId})

C17_NoLostUpdate ==
  \A u \in DOMAIN wallets :
    /\ wallets[u].balance = C17_Total(u, "deposit") - C17_Total(u, "withdrawal")
    /\ wallets[u].lockedBalance = C17_Total(u, "bet")
    /\ 0 <= wallets[u].lockedBalance
    /\ wallets[u].lockedBalance <= wallets[u].balance

\* two wallet actions are suspended at their await and one wallet has
\* received a deposit, a withdrawal and a bet
C17_Witness ==
  /\ walletInFlight = 2
  /\ \E u \in DOMAIN wallets :
       /\ C17_Total(u, "deposit") > 0
       /\ C17_Total(u, "withdrawal") > 0
       /\ C17_Total(u, "bet") > 0

\* C18: withdraw for a user with no wallet, or for more than
\* balance - lockedBalance, reports Insufficient available balance and leaves
\* every balance, every lockedBalance and the transaction history unchanged.
C18_WithdrawRejected ==
  [][\A u \in Users, a \in WithdrawAmounts :
       ( /\ \/ ~Has(wallets, u)
            \/ a > wallets[u].balance - wallets[u].lockedBalance
         /\ lastCall'.op = "withdraw"
         /\ Withdraw(u, a) ) =>
          /\ walletError' = "Insufficient available balance"
          /\ UNCHANGED <<wallets, transactionHistory, pendingTransactions,
                         escrowHoldings>>]_vars

\* a withdrawal has just been rejected while every user holds a balance that
\* covers it and locked funds that leave too little available
C18_Witness ==
  /\ lastCall.op = "withdraw"
  /\ walletError = "Insufficient available balance"
  /\ DOMAIN wallets = Users
  /\ \A u \in Users, a \in WithdrawAmounts :
       /\ wallets[u].balance >= a
       /\ wallets[u].balance - wallets[u].lockedBalance < a

\* C19: deposit with amount <= 0 reports Invalid deposit amount, creates no
\* wallet, changes no balance and records no transaction; deposit with
\* amount > 0 creates the wallet if absent with balance 0 and lockedBalance 0
\* and then raises its balance by exactly amount, leaving its lockedBalance
\* and the other wallets alone.
C19_DepositContract ==
  [][\A u \in Users, a \in DepositAmounts :
       (lastCall'.op = "deposit" /\ Deposit(u, a)) =>
          IF a <= 0
          THEN /\ walletError' = "Invalid deposit amount"
               /\ UNCHANGED <<wallets, transactionHistory, pendingTransactions>>
          ELSE /\ walletError' = NoError
               /\ DOMAIN wallets' = DOMAIN wallets \cup {u}
               /\ wallets'[u].balance
                    = (IF Has(wallets, u) THEN wallets[u].balance ELSE 0) + a
               /\ wallets'[u].lockedBalance
                    = (IF Has(wallets, u) THEN wallets[u].lockedBalance ELSE 0)
               /\ \A v \in DOMAIN wallets \ {u} : wallets'[v] = wallets[v]
               /\ TxCount(transactionHistory', "deposit", NoMatch)
                    = TxCount(transactionHistory, "deposit", NoMatch) + 1]_vars

\* an invalid deposit has just been rejected after one deposit created a
\* wallet
C19_Witness ==
  /\ lastCall.op = "deposit"
  /\ walletError = "Invalid deposit amount"
  /\ TxCount(transactionHistory, "deposit", NoMatch) = 1
  /\ \E u \in DOMAIN wallets :
       /\ DOMAIN wallets = {u}
       /\ wallets[u].balance = C17_Total(u, "deposit")
       /\ wallets[u].balance > 0
       /\ wallets[u].lockedBalance = 0

\* C20: every match that is active or completed has two distinct players
\* (joinMatch lets nobody join a match in which they are player1).
C20_TwoDistinctPlayers ==
  /\ \A m \in DOMAIN activeMatches :
       activeMatches[m].player1Id # activeMatches[m].player2Id
  /\ \A m \in DOMAIN matchHistory :
       matchHistory[m].player1Id # matchHistory[m].player2Id

\* C21: the transaction history is append-only: no step removes or alters an
\* entry, every entry is completed, each successful deposit, withdraw,
\* placeBet and processPayout adds exactly one completed transaction of type
\* deposit, withdrawal, bet and win respectively, and a failed one adds none.
C21_Added(type) ==
  IF walletError' # NoError
  THEN transactionHistory' = transactionHistory
  ELSE \E t \in BagToSet(transactionHistory') :
         /\ t.type = type
         /\ t.status = "completed"
         /\ transactionHistory' = transactionHistory (+) SetToBag({t})

C21_AppendOnly ==
  [][ /\ \/ transactionHistory' = transactionHistory
         \/ \E t \in BagToSet(transactionHistory') :
              /\ t.status = "completed"
              /\ transactionHistory' = transactionHistory (+) SetToBag({t})
      /\ \A u \in Users, a \in DepositAmounts :
            (lastCall'.op = "deposit" /\ Deposit(u, a)) => C21_Added("deposit")
      /\ \A u \in Users, a \in WithdrawAmounts :
            (lastCall'.op = "withdraw" /\ Withdraw(u, a)) => C21_Added("withdrawal")
      /\ \A u \in Users, m \in MatchIds, a \in BetAmounts :
            (lastCall'.op = "placeBet" /\ PlaceBet(u, m, a)) => C21_Added("bet")
      /\ \A m \in MatchIds, w \in Users :
            (lastCall'.op = "processPayout" /\ ProcessPayout(m, w)) => C21_Added("win")
    ]_vars

\* a wallet action has just failed on a history that holds a deposit, a bet
\* and a win
C21_Witness ==
  /\ lastCall.op \in {"deposit", "withdraw", "placeBet", "processPayout"}
  /\ walletError # NoError
  /\ \A type \in {"deposit", "bet", "win"} :
       \E t \in BagToSet(transactionHistory) : t.type = type

\* C22: each settled match increments totalMatches by exactly 1 for exactly
\* its two participants, wins by 1 for the winner only and losses by 1 for
\* the loser only, and changes the counters of no other user.
C22_StatsPerSettledMatch ==
  [][\A m \in MatchIds, w \in Users :
       (Has(activeMatches, m) /\ lastCall'.op = "endMatch" /\ EndMatch(m, w)) =>
          LET participants == {activeMatches[m].player1Id, activeMatches[m].player2Id}
              One(b) == IF b THEN 1 ELSE 0
          IN \A u \in DOMAIN users :
               /\ users'[u].totalMatches
                    = users[u].totalMatches + One(u \in participants)
               /\ users'[u].wins
                    = users[u].wins + One(u \in participants /\ u = w)
               /\ users'[u].losses
                    = users[u].losses + One(u \in participants /\ u # w)]_vars

\* C23: after updateStats for a known user the stored winRate equals
\* wins / totalMatches of that user, so 0 <= winRate <= 1 in every reachable
\* state (the users here start with no match played, so those with
\* totalMatches > 0 are the ones updateStats has run for).
C23_WinRateIsFraction ==
  \A u \in DOMAIN users :
    users[u].totalMatches > 0 =>
      /\ userStats[u].winRate = Rat(users[u].wins, users[u].totalMatches)
      /\ ~RatLess(userStats[u].winRate, Zero)
      /\ ~RatLess([num |-> 1, den |-> 1], userStats[u].winRate)

\* C24: fetchLeaderboard serves the cached snapshot only if a snapshot
\* exists, the current time is strictly before its expiry and clearCache was
\* not called since it was computed; in every other case it recomputes from
\* the current users and stores the result with expiry now + 5 minutes.  A
\* snapshot past its expiry is never returned.
C24_ServesOnlyFresh ==
  [][(lastCall'.op = "fetchLeaderboard" /\ FetchLeaderboard) =>
       /\ IF /\ cachedLeaderboard # Null
             /\ fetchLog.called
             /\ now < The(cachedLeaderboardExpiry)
          THEN /\ fetchLog'.returned = The(cachedLeaderboard)
               /\ UNCHANGED <<cachedLeaderboard, cachedLeaderboardExpiry>>
          ELSE /\ fetchLog'.returned = Leaderboard(userKeys, userStats)
               /\ cachedLeaderboard' = Some(Leaderboard(userKeys, userStats))
               /\ cachedLeaderboardExpiry' = Some(now + LEADERBOARD_CACHE_DURATION)
       /\ fetchLog'.returned = The(cachedLeaderboard')
       /\ now < The(cachedLeaderboardExpiry')]_vars

\* fetchLeaderboard has just served a snapshot that was computed earlier and
\* that the users have moved away from since
C24_Witness ==
  /\ lastCall.op = "fetchLeaderboard"
  /\ fetchLog.called
  /\ fetchLog.at = now
  /\ fetchLog.expiry - LEADERBOARD_CACHE_DURATION < fetchLog.at
  /\ fetchLog.returned # Leaderboard(userKeys, userStats)

\* C25: two fetchLeaderboard calls less than 5 minutes apart with no
\* clearCache between them return identical ordered results, whatever
\* initializeUser, updateStats or updateProfile calls happen between them.
C25_IdenticalWithinFiveMinutes ==
  [][( /\ lastCall'.op = "fetchLeaderboard"
       /\ FetchLeaderboard
       /\ fetchLog.called
       /\ now - fetchLog.at < LEADERBOARD_CACHE_DURATION ) =>
         fetchLog'.returned = fetchLog.returned]_vars

\* C25, amended: two fetchLeaderboard calls with no clearCache between them
\* return identical ordered results when the later one is made before the
\* expiry of the snapshot that the earlier one returned (5 minutes after
\* that snapshot was computed), whatever initializeUser, updateStats or
\* updateProfile calls happen between them.
C25_IdenticalUntilExpiry ==
  [][( /\ lastCall'.op = "fetchLeaderboard"
       /\ FetchLeaderboard
       /\ fetchLog.called
       /\ now < fetchLog.expiry ) =>
         fetchLog'.returned = fetchLog.returned]_vars

\* a second fetchLeaderboard, later than the first and before the expiry of
\* its snapshot, has returned that snapshot although a user registered
\* between the two
C25_Witness ==
  /\ lastCall.op = "fetchLeaderboard"
  /\ fetchLog.called
  /\ fetchLog.at = now
  /\ fetchLog.expiry - LEADERBOARD_CACHE_DURATION < fetchLog.at
  /\ Len(fetchLog.returned) < Len(userKeys)
  /\ \E u \in DOMAIN users : users[u].totalMatches > 0

\* C26: a recomputed leaderboard contains every user exactly once, ordered by
\* winRate descending with users of equal winRate in their insertion order,
\* and the entry at position i (from 1) has rank i; users A, B, C inserted in
\* this order, A and B with the same winRate and C with a lower one, get
\* ranks 1, 2, 3.
C26_Position(keys, userId) == CHOOSE i \in 1..Len(keys) : keys[i] = userId

C26_RankedByWinRate ==
  [][( /\ lastCall'.op = "fetchLeaderboard"
       /\ FetchLeaderboard
       /\ ~CacheFresh(cachedLeaderboard, cachedLeaderboardExpiry, now) ) =>
         LET lb == fetchLog'.returned
         IN /\ Len(lb) = Cardinality(DOMAIN users)
            /\ {lb[i].userId : i \in 1..Len(lb)} = DOMAIN users
            /\ \A i \in 1..Len(lb) :
                 /\ lb[i].rank = i
                 /\ lb[i].winRate = userStats[lb[i].userId].winRate
            /\ \A i, j \in 1..Len(lb) :
                 i < j =>
                   /\ ~RatLess(lb[i].winRate, lb[j].winRate)
                   /\ lb[i].winRate = lb[j].winRate =>
                         C26_Position(userKeys, lb[i].userId)
                           < C26_Position(userKeys, lb[j].userId)
            /\ ( /\ Len(userKeys) = 3
                 /\ userStats[userKeys[1]].winRate = userStats[userKeys[2]].winRate
                 /\ RatLess(userStats[userKeys[3]].winRate,
                            userStats[userKeys[2]].winRate) ) =>
                  \A i \in 1..3 : lb[i].userId = userKeys[i] /\ lb[i].rank = i]_vars

\* the leaderboard has just been computed for u2, u1 and u3, registered in
\* this order, u2 and u1 having won 4 matches of 5 and u3 2 of 4: u2 has rank
\* 1, u1 rank 2 and u3 rank 3
C26_Witness ==
  /\ lastCall.op = "fetchLeaderboard"
  /\ userKeys = <<"u2", "u1", "u3">>
  /\ users["u2"].wins * 5 = users["u2"].totalMatches * 4
  /\ users["u1"].wins * 5 = users["u1"].totalMatches * 4
  /\ users["u3"].wins * 2 = users["u3"].totalMatches
  /\ fetchLog.called
  /\ Len(fetchLog.returned) = 3
  /\ \A i \in 1..3 :
       /\ fetchLog.returned[i].userId = userKeys[i]
       /\ fetchLog.returned[i].rank = i
       /\ fetchLog.returned[i].winRate = userStats[userKeys[i]].winRate
       /\ fetchLog.returned[i].winRate.num > 0

\* C28: initializeUser always creates the user with wins = 0, losses = 0 and
\* totalMatches = 0, whatever profile fields are supplied, together with a
\* stats record of rank 0, winRate 0, avgStake 0 and an empty match-history
\* list for the new id.
C28_InitializeUserZeroes ==
  [][\A u \in RankUsers, userData \in RankProfiles :
       (lastCall'.op = "initializeUser" /\ InitializeUser(u, userData)) =>
          /\ users'[u].wins = 0
          /\ users'[u].losses = 0
          /\ users'[u].totalMatches = 0
          /\ userStats'[u] = [rank |-> 0, winRate |-> Zero, avgStake |-> Zero]
          /\ userMatchHistory'[u] = <<>>]_vars

\* C27: a persistence write that fails after an in-memory commit neither
\* rolls back the committed mutation nor turns the operation into a failure
\* for its caller: while the storage refuses writes, a deposit, withdraw,
\* placeBet or processPayout that recorded its transaction leaves error null,
\* its resumption after the refused write changes neither the error nor the
\* wallets, escrow holdings, transactions and matches, and a createMatch,
\* joinMatch or endMatch that moved its match throws nothing.
C27_PersistenceFailureNonFatal ==
  [][~storageUp =>
       /\ transactionHistory' # transactionHistory => walletError' = NoError
       /\ walletInFlight' < walletInFlight =>
            UNCHANGED <<wallets, escrowHoldings, transactionHistory, walletError,
                        pendingMatches, activeMatches, matchHistory, users>>
       /\ (lastCall'.op = "createMatch" /\ pendingMatches' # pendingMatches)
            => lastCall'.thrown = NoError
       /\ (lastCall'.op = "joinMatch" /\ activeMatches' # activeMatches)
            => lastCall'.thrown = NoError
       /\ (lastCall'.op = "endMatch" /\ matchHistory' # matchHistory)
            => lastCall'.thrown = NoError]_vars

\* with the storage refusing writes since before the call, endMatch has paid
\* the winner of a match between two players, the payout has resumed after
\* its refused write, and no error is reported
C27_Witness ==
  /\ ~storageUp
  /\ lastCall.op = "endMatch"
  /\ lastCall.thrown = NoError
  /\ walletInFlight = 0
  /\ walletError = NoError
  /\ ~walletLoading
  /\ Has(matchHistory, lastCall.matchId)
  /\ matchHistory[lastCall.matchId].player1Id # matchHistory[lastCall.matchId].player2Id
  /\ TxCount(transactionHistory, "win", lastCall.matchId) = 1

\* C29: updateGameState and resetMatch change only the game-state projection
\* of the given match: they leave every wallet, escrow holding, transaction,
\* match record (pending, active, history) and user statistic unchanged, and
\* can run between any two steps of a settlement operation without changing
\* its outcome (what endMatch would set for any active match and winner, and
\* what the resumption of a suspended wallet action would set, are the same
\* after the step as before it).
C29_GameStateOnly ==
  [][\A m \in MatchIds :
       ( \/ /\ lastCall'.op = "resetMatch"
            /\ ResetMatch(m)
         \/ /\ lastCall'.op = "updateGameState"
            /\ \E gameState \in GameStateUpdates : UpdateGameState(m, gameState) ) =>
          /\ UNCHANGED <<wallets, escrowHoldings, transactionHistory,
                         pendingTransactions, pendingMatches, activeMatches,
                         matchHistory, users, userStats>>
          /\ \A k \in (DOMAIN gameStates \cup DOMAIN gameStates') \ {m} :
               /\ Has(gameStates, k)
               /\ Has(gameStates', k)
               /\ gameStates'[k] = gameStates[k]
          /\ \A k \in DOMAIN activeMatches, w \in Users :
               EndMatchSets(k, w)' = EndMatchSets(k, w)
          /\ WalletFinallyEffect(WalletState, SaveString)'
               = WalletFinallyEffect(WalletState, SaveString)]_vars

\* updateGameState has just run for a match between two registered players
\* that endMatch has completed and paid out, while the payout is still
\* suspended at its write
C29_Witness ==
  /\ lastCall.op = "updateGameState"
  /\ walletInFlight = 1
  /\ walletLoading
  /\ Has(gameStates, lastCall.matchId)
  /\ gameStates[lastCall.matchId].scores.player1 = 1
  /\ Has(matchHistory, lastCall.matchId)
  /\ matchHistory[lastCall.matchId].player1Id # matchHistory[lastCall.matchId].player2Id
  /\ {matchHistory[lastCall.matchId].player1Id,
      matchHistory[lastCall.matchId].player2Id} \subseteq DOMAIN users
  /\ users[matchHistory[lastCall.matchId].winner].wins = 1
  /\ TxCount(transactionHistory, "win", lastCall.matchId) = 1

\* C30: balance arithmetic is exact: for every stake of whole cents, the
\* platform fee (5% of the pot of two stakes) and the winnings are the exact
\* decimal amounts, and after any number of payouts the balance is the exact
\* decimal sum of what the wallet held and the winnings it was paid.
C30_ExactCents ==
  payoutWallet.paid > 0 =>
    LET stake == payoutWallet.stake
        pot == 2 * stake
        d == 100 * PLATFORM_FEE_DEN
    IN /\ The(payoutWallet.platformFee) = NumberOf(pot * PLATFORM_FEE_NUM, d)
       /\ The(payoutWallet.winningAmount)
            = NumberOf(pot * (PLATFORM_FEE_DEN - PLATFORM_FEE_NUM), d)
       /\ The(payoutWallet.balance)
            = NumberOf(stake * PLATFORM_FEE_DEN
                         + payoutWallet.paid * pot * (PLATFORM_FEE_DEN - PLATFORM_FEE_NUM),
                       d)

\* C31: in every reachable state each user's lockedBalance is the sum of the
\* amounts of the escrow holdings of the matches on which that user has
\* placed a stake, and every escrow holding has a stake placed on its match
\* by each of its two players, so that both stakes it releases are locked.
C31_Staked(userId, matchId) ==
  \E t \in BagToSet(transactionHistory) :
    t.type = "bet" /\ t.userId = userId /\ t.matchId = matchId

RECURSIVE C31_HeldFor(_, _)
C31_HeldFor(userId, matchIds) ==
  IF matchIds = {} THEN 0
  ELSE LET m == CHOOSE x \in matchIds : TRUE
       IN (IF C31_Staked(userId, m) THEN escrowHoldings[m].amount ELSE 0)
            + C31_HeldFor(userId, matchIds \ {m})

C31_LockedIsEscrowed ==
  /\ \A u \in DOMAIN wallets :
       wallets[u].lockedBalance = C31_HeldFor(u, DOMAIN escrowHoldings)
  /\ \A m \in DOMAIN escrowHoldings :
       /\ C31_Staked(escrowHoldings[m].player1Id, m)
       /\ C31_Staked(escrowHoldings[m].player2Id, m)

\* C32: the recorded winner of every completed match is one of the match's
\* two players: an endMatch call on an active match records the winner it is
\* given when that is a participant, and otherwise does not complete the
\* match, does not move it to history and changes no wallet.
C32_WinnerIsParticipant ==
  [][\A m \in MatchIds, w \in Winners :
       (lastCall'.op = "endMatch" /\ Has(activeMatches, m) /\ EndMatch(m, w)) =>
          IF w \in {activeMatches[m].player1Id, activeMatches[m].player2Id}
          THEN Has(matchHistory', m) /\ matchHistory'[m].winner = w
          ELSE UNCHANGED <<activeMatches, matchHistory, wallets>>]_vars

\* C33: a match leaves the active set only by being settled: in every step,
\* each match that was active is afterwards still active, or is in match
\* history with status completed, its winnings paid and its escrow holding
\* released; no operation drops an active match.
C33_LeavesActiveOnlySettled ==
  [][\A m \in DOMAIN activeMatches :
       \/ Has(activeMatches', m)
       \/ /\ Has(matchHistory', m)
          /\ matchHistory'[m].status = "completed"
          /\ TxCount(transactionHistory', "win", m) > 0
          /\ ~Has(escrowHoldings', m)]_vars

\* C34: the participants' statistics are never updated for a match whose
\* payout was not applied: in every step that counts a match in some user's
\* totalMatches, the escrow holding of that match is removed and its winner
\* is credited the winnings.
C34_StatsOnlyWithPayout ==
  [][(\E u \in DOMAIN users : users'[u].totalMatches # users[u].totalMatches) =>
       LET m == lastCall'.matchId
       IN /\ Has(escrowHoldings, m)
          /\ ~Has(escrowHoldings', m)
          /\ Has(matchHistory', m)
          /\ TxCount(transactionHistory', "win", m)
               = TxCount(transactionHistory, "win", m) + 1
          /\ Has(wallets, matchHistory'[m].winner)
          /\ wallets'[matchHistory'[m].winner].balance
               > wallets[matchHistory'[m].winner].balance]_vars

\* C35: of the joinMatch calls that different players make on one pending
\* match, in any order, at most one succeeds: the call that finds the match
\* pending and succeeds makes it active with its caller as player2; every
\* call that finds it no longer pending throws Match not found and locks no
\* funds (no wallet, escrow holding, transaction or match changes); the
\* match never becomes pending again and its player2 never changes.
C35_OneJoinerWins ==
  [][/\ \A m \in MatchIds, u \in Joiners :
          (lastCall'.op = "joinMatch" /\ lastCall'.matchId = m /\ JoinMatch(m, u)) =>
             IF Has(pendingMatches, m)
             THEN lastCall'.thrown = NoError =>
                    /\ ~Has(pendingMatches', m)
                    /\ Has(activeMatches', m)
                    /\ activeMatches'[m].player2Id = u
             ELSE /\ lastCall'.thrown = "Match not found"
                  /\ UNCHANGED <<wallets, escrowHoldings, transactionHistory,
                                 pendingMatches, activeMatches, matchHistory>>
     /\ \A m \in DOMAIN pendingMatches' :
          ~Has(pendingMatches, m) => m = nextMatchId
     /\ \A m \in DOMAIN activeMatches :
          /\ Has(activeMatches', m) =>
               activeMatches'[m].player2Id = activeMatches[m].player2Id
          /\ Has(matchHistory', m) =>
               matchHistory'[m].player2Id = activeMatches[m].player2Id]_vars

\* a joinMatch call has just been rejected on a match that another player
\* joined, while each of the three players had the funds to join
C35_Witness ==
  /\ lastCall.op = "joinMatch"
  /\ lastCall.thrown = "Match not found"
  /\ Has(activeMatches, lastCall.matchId)
  /\ activeMatches[lastCall.matchId].player2Id
       # activeMatches[lastCall.matchId].player1Id
  /\ \A u \in Joiners :
       /\ Has(wallets, u)
       /\ wallets[u].balance >= activeMatches[lastCall.matchId].stakeAmount

\* C36: after every step each match id is in at most one of pendingMatches,
\* activeMatches and matchHistory, and the status of each match is that of
\* the set it is in (pending, active, completed); no step moves a match
\* backwards: a completed match does not become active or pending, an
\* active match does not become pending.
C36_Consistent(pending, active, history) ==
  /\ (DOMAIN pending) \cap (DOMAIN active) = {}
  /\ (DOMAIN pending) \cap (DOMAIN history) = {}
  /\ (DOMAIN active) \cap (DOMAIN history) = {}
  /\ \A m \in DOMAIN pending : pending[m].status = "pending"
  /\ \A m \in DOMAIN active : active[m].status = "active"
  /\ \A m \in DOMAIN history : history[m].status = "completed"

C36_OneSetForward ==
  [][/\ C36_Consistent(pendingMatches', activeMatches', matchHistory')
     /\ \A m \in DOMAIN matchHistory :
          ~Has(activeMatches', m) /\ ~Has(pendingMatches', m)
     /\ \A m \in DOMAIN activeMatches : ~Has(pendingMatches', m)]_vars

\* a match that was pending, then active, is completed and in history, and a
\* joinMatch call on it has just been rejected
C36_Witness ==
  /\ lastCall.op = "joinMatch"
  /\ lastCall.thrown = "Match not found"
  /\ Has(matchHistory, lastCall.matchId)
  /\ matchHistory[lastCall.matchId].status = "completed"
  /\ matchHistory[lastCall.matchId].player2Id # NoUser

\* C38: withdraw never increases a balance: for every amount, zero and
\* negative amounts included, each wallet's balance after a withdraw call is
\* at most its balance before, and a withdraw that succeeds (records its
\* transaction) has amount > 0.
C38_WithdrawNeverAdds ==
  [][\A u \in Users, a \in AnyWithdrawAmounts :
       (lastCall'.op = "withdraw" /\ Withdraw(u, a)) =>
          /\ \A w \in DOMAIN wallets : wallets'[w].balance <= wallets[w].balance
          /\ transactionHistory' # transactionHistory => a > 0]_vars

\* C39: every transaction placed in pendingTransactions leaves the pending
\* status once its deposit has completed: whenever no wallet operation is in
\* flight, pendingTransactions holds no entry with status pending and the
\* pending amount shown to the user is 0.
C39_PendingClears ==
  walletInFlight = 0 =>
    /\ \A t \in BagToSet(pendingTransactions) : t.status # "pending"
    /\ PendingAmount = 0

\* C37: the load of persisted state at process start never discards a
\* committed mutation: when its continuation runs after an operation has
\* completed, every transaction that the operation recorded is still in
\* transactionHistory and every wallet it created is still in wallets
C37_LoadKeepsCommitted ==
  [][(lastCall'.op = "loadPersistedState" /\ walletLoad.phase = "read"
      /\ walletInFlight = 0) =>
       /\ transactionHistory \sqsubseteq transactionHistory'
       /\ DOMAIN wallets \subseteq DOMAIN wallets']_vars

\* C40: isLoading is true only while a wallet action is in flight: it is
\* false whenever no deposit, withdraw, placeBet or processPayout is
\* suspended, also in the state that the load at process start restores
C40_LoadingOnlyInFlight ==
  walletInFlight = 0 => ~walletLoading

====
